---- MODULE Spec2Model ----
(***************************************************************************)
(* Model of the OCR text-extraction service: utils/parser.py (DataParser), *)
(* and the single DataParser instance that app.py shares among requests.   *)
(*                                                                         *)
(* A text is a sequence of characters (one-character strings); a span is   *)
(* the pair of offsets that re.Match.span() returns (start inclusive, end  *)
(* exclusive, counted from 0).  The regular expressions of parser.py are   *)
(* written as syntax trees and matched by a backtracking matcher that      *)
(* tries alternatives in the order Python's re module tries them.          *)
(***************************************************************************)
EXTENDS Integers, Sequences, FiniteSets, TLC

VARIABLES
    now,        \* the wall clock: the number of the day it shows
    fields,     \* the attributes of the DataParser instance (self.__dict__)
    req,        \* per request: the parse_text call it is running
    memo,       \* the first call that returned: <<[text, result]>>, or <<>>
    web,        \* the api_extract handler: its position, locals and response
    job,        \* the process_image call: its position, options and image
    log,        \* the error log: the set of [source, cause] records written
    data,       \* the extract_structured_data call: what was read, the result
    scan,       \* the _analyze_line_items call: its position and locals
    disk,       \* the upload and the processed folder: the files in each
    page        \* the upload_file or result request: its position and answer

vars == <<now, fields, req, memo, web, job, log, data, scan, disk, page>>

(***************************************************************************)
(* Characters                                                              *)
(***************************************************************************)
Dollar == "$"
Euro == "€"
Pound == "£"
Yen == "¥"
NL == "\n"

LowerSeq == <<"a","b","c","d","e","f","g","h","i","j","k","l","m",
              "n","o","p","q","r","s","t","u","v","w","x","y","z">>
UpperSeq == <<"A","B","C","D","E","F","G","H","I","J","K","L","M",
              "N","O","P","Q","R","S","T","U","V","W","X","Y","Z">>
DigitSeq == <<"0","1","2","3","4","5","6","7","8","9">>

Range(f) == {f[i] : i \in DOMAIN f}

LowerSet == Range(LowerSeq)
UpperSet == Range(UpperSeq)
Letter == LowerSet \cup UpperSet
Digit == Range(DigitSeq)
Space == {" ", "\t", NL}
Word == Letter \cup Digit \cup {"_"}
Punct == {":", ",", ".", "/", "-", "(", ")", "+", "#", "@", "%", "_",
          Dollar, Euro, Pound, Yen}
Alphabet == Word \cup Space \cup Punct
AnyChar == Alphabet \ {NL}

IndexOf(seq, c) == CHOOSE i \in DOMAIN seq : seq[i] = c

\* str.lower() on one character
ToLower(c) == IF c \in UpperSet THEN LowerSeq[IndexOf(UpperSeq, c)] ELSE c
ToUpper(c) == IF c \in LowerSet THEN UpperSeq[IndexOf(LowerSeq, c)] ELSE c
SwapCase(c) == IF c \in UpperSet THEN ToLower(c) ELSE ToUpper(c)

\* int() of one decimal digit
DigitVal(c) == IndexOf(DigitSeq, c) - 1

(***************************************************************************)
(* Regular expressions: syntax trees and the matcher                       *)
(***************************************************************************)
Unbounded == 0 - 1
NoMatch == 0 - 1

Node(k, s, a, lo, hi, g) == [k |-> k, s |-> s, a |-> a, lo |-> lo, hi |-> hi, g |-> g]
In(S) == Node("set", S, <<>>, 1, 1, TRUE)                  \* [...] or \d \s \w .
Chr(c) == In({c})                                          \* a literal character
Lit(str) == Node("lit", {}, str, 1, 1, TRUE)               \* a literal string
Cat(a) == Node("cat", {}, a, 1, 1, TRUE)                   \* r1 r2 ...
Alt(a) == Node("alt", {}, a, 1, 1, TRUE)                   \* r1|r2|...
Rep(r, lo, hi) == Node("rep", {}, <<r>>, lo, hi, TRUE)     \* r{lo,hi}, r*, r+, r?
LazyRep(r, lo, hi) == Node("rep", {}, <<r>>, lo, hi, FALSE) \* r*?
Opt(r) == Rep(r, 0, 1)
Star(r) == Rep(r, 0, Unbounded)
Plus(r) == Rep(r, 1, Unbounded)

Dec(n) == IF n > 0 THEN n - 1 ELSE n
Min(I) == CHOOSE i \in I : \A j \in I : i <= j
Max(I) == CHOOSE i \in I : \A j \in I : i >= j

\* re.IGNORECASE (ic) makes a character match when either of its cases does
CharIn(c, S, ic) == c \in S \/ (ic /\ SwapCase(c) \in S)

\* How many characters of t from offset p on are in S, at most cap of them
RunLength(S, ic, t, p, cap) ==
    (CHOOSE j \in 1..(cap + 1) :
        /\ j = cap + 1 \/ ~CharIn(t[p + j], S, ic)
        /\ \A i \in 1..(j - 1) : CharIn(t[p + i], S, ic)) - 1

\* Of the tries (pairs <<rank, end offset>>) the end of the successful one
\* that backtracking reaches first: the lowest rank, or the highest.
FirstTry(tries, lowest) ==
    LET hits == {x \in tries : x[2] # NoMatch}
        ranks == {x[1] : x \in hits}
        pick == IF lowest THEN Min(ranks) ELSE Max(ranks)
    IN  IF hits = {} THEN NoMatch
        ELSE (CHOOSE x \in hits : x[1] = pick)[2]

\* The end offset of the first way (in backtracking order) to match the
\* stack of nodes st against t from offset p, or NoMatch.  A repeated
\* character class takes its whole run at once and gives back one
\* character at a time (a lazy one starts from the fewest).
RECURSIVE MatchK(_, _, _, _)
MatchK(st, ic, t, p) ==
    IF st = <<>> THEN p
    ELSE LET n == Head(st)
             rest == Tail(st)
         IN  CASE n.k = "set" ->
                    IF p < Len(t) /\ CharIn(t[p + 1], n.s, ic)
                    THEN MatchK(rest, ic, t, p + 1)
                    ELSE NoMatch
               [] n.k = "lit" ->
                    IF /\ p + Len(n.a) <= Len(t)
                       /\ \A i \in DOMAIN n.a : CharIn(t[p + i], {n.a[i]}, ic)
                    THEN MatchK(rest, ic, t, p + Len(n.a))
                    ELSE NoMatch
               [] n.k = "cat" -> MatchK(n.a \o rest, ic, t, p)
               [] n.k = "alt" ->
                    FirstTry({<<j, MatchK(<<n.a[j]>> \o rest, ic, t, p)>> :
                                 j \in DOMAIN n.a}, TRUE)
               [] n.k = "rep" /\ n.a[1].k = "set" ->
                    LET room == Len(t) - p
                        cap == IF n.hi = Unbounded \/ n.hi > room THEN room ELSE n.hi
                        run == RunLength(n.a[1].s, ic, t, p, cap)
                    IN  FirstTry({<<k, MatchK(rest, ic, t, p + k)>> : k \in n.lo..run},
                                 ~n.g)
               [] n.k = "rep" /\ n.a[1].k # "set" ->
                    LET again == [n EXCEPT !.lo = Dec(n.lo), !.hi = Dec(n.hi)]
                        more == MatchK(<<n.a[1], again>> \o rest, ic, t, p)
                        stop == MatchK(rest, ic, t, p)
                    IN  IF n.lo > 0 THEN more
                        ELSE IF n.hi = 0 THEN stop
                        ELSE IF n.g THEN (IF more # NoMatch THEN more ELSE stop)
                        ELSE (IF stop # NoMatch THEN stop ELSE more)

\* re.search anchored at one offset: the match attempt finditer makes there
MatchAt(re, ic, t, p) == MatchK(<<re>>, ic, t, p)

\* The spans of the matches at or after offset s, leftmost first, each
\* starting where the one before it ended or later.
RECURSIVE ScanFrom(_, _)
ScanFrom(hits, s) ==
    LET ahead == {h \in hits : h[1] >= s}
        first == CHOOSE h \in ahead : h[1] = Min({x[1] : x \in ahead})
    IN  IF ahead = {} THEN <<>>
        ELSE <<first>> \o ScanFrom(hits, IF first[2] > first[1] THEN first[2]
                                                               ELSE first[1] + 1)

\* re.finditer(pattern, text, flags): the spans of the matches in order
finditer(re, ic, t) ==
    ScanFrom({h \in {<<s, MatchAt(re, ic, t, s)>> : s \in 0..Len(t)} : h[2] # NoMatch}, 0)

\* re.search(pattern, text): the span of the leftmost match, or <<>>
search(re, ic, t) ==
    LET hits == {h \in {<<s, MatchAt(re, ic, t, s)>> : s \in 0..Len(t)} : h[2] # NoMatch}
    IN  IF hits = {} THEN <<>>
        ELSE CHOOSE h \in hits : h[1] = Min({x[1] : x \in hits})

\* str[start:end]
Slice(t, span) == SubSeq(t, span[1] + 1, span[2])

(***************************************************************************)
(* The patterns of utils/parser.py                                         *)
(***************************************************************************)
D == In(Digit)             \* \d
S == In(Space)             \* \s
W == In(Word)              \* \w
Dn(n) == Rep(D, n, n)      \* \d{n}

\* (?:Jan|Feb|Mar|Apr|May|Jun|Jul|Aug|Sep|Oct|Nov|Dec)
MonthAbbr ==
    Alt(<<Lit(<<"J","a","n">>), Lit(<<"F","e","b">>), Lit(<<"M","a","r">>),
          Lit(<<"A","p","r">>), Lit(<<"M","a","y">>), Lit(<<"J","u","n">>),
          Lit(<<"J","u","l">>), Lit(<<"A","u","g">>), Lit(<<"S","e","p">>),
          Lit(<<"O","c","t">>), Lit(<<"N","o","v">>), Lit(<<"D","e","c">>)>>)

DateSep == In({"/", "-"})  \* [/-]

\* the patterns with a year of four digits only
date_patterns_long_year ==
    << Cat(<<Rep(D, 1, 2), DateSep, Rep(D, 1, 2), DateSep, Dn(4)>>),
       Cat(<<Rep(D, 1, 2), S, MonthAbbr, Star(In(LowerSet)), S, Dn(4)>>),
       Cat(<<MonthAbbr, Star(In(LowerSet)), S, Rep(D, 1, 2), Opt(Chr(",")), S,
             Dn(4)>>) >>

date_patterns ==
    << Cat(<<Rep(D, 1, 2), DateSep, Rep(D, 1, 2), DateSep, Rep(D, 2, 4)>>),
       Cat(<<Rep(D, 1, 2), S, MonthAbbr, Star(In(LowerSet)), S, Rep(D, 2, 4)>>),
       Cat(<<MonthAbbr, Star(In(LowerSet)), S, Rep(D, 1, 2), Opt(Chr(",")), S,
             Rep(D, 2, 4)>>) >>

\* \d+(?:,\d{3})*(?:\.\d{2})?
NumberRe ==
    Cat(<<Plus(D), Star(Cat(<<Chr(","), Dn(3)>>)), Opt(Cat(<<Chr("."), Dn(2)>>))>>)

CurrencySymbol == In({Dollar, Euro, Pound, Yen})      \* [$€£¥]
\* (?:USD|EUR|GBP|JPY)
CurrencyCode ==
    Alt(<<Lit(<<"U","S","D">>), Lit(<<"E","U","R">>), Lit(<<"G","B","P">>),
          Lit(<<"J","P","Y">>)>>)

amount_patterns ==
    << Cat(<<CurrencySymbol, Opt(S), NumberRe>>),
       Cat(<<NumberRe, Opt(S), CurrencySymbol>>),
       Cat(<<CurrencyCode, Opt(S), NumberRe>>),
       Cat(<<NumberRe, Opt(S), CurrencyCode>>) >>

\* (?:Street|St|Avenue|Ave|Road|Rd|Boulevard|Blvd|Drive|Dr|Lane|Ln|Court|Ct)
StreetSuffix ==
    Alt(<<Lit(<<"S","t","r","e","e","t">>), Lit(<<"S","t">>),
          Lit(<<"A","v","e","n","u","e">>), Lit(<<"A","v","e">>),
          Lit(<<"R","o","a","d">>), Lit(<<"R","d">>),
          Lit(<<"B","o","u","l","e","v","a","r","d">>), Lit(<<"B","l","v","d">>),
          Lit(<<"D","r","i","v","e">>), Lit(<<"D","r">>),
          Lit(<<"L","a","n","e">>), Lit(<<"L","n">>),
          Lit(<<"C","o","u","r","t">>), Lit(<<"C","t">>)>>)

address_patterns ==
    << Cat(<<Plus(D), S, Plus(In(Word \cup Space)), StreetSuffix,
             Plus(In(Word \cup Space \cup {","})), Dn(5),
             Opt(Cat(<<Chr("-"), Dn(4)>>))>>),
       Cat(<<Chr("P"), Opt(Chr(".")), Chr("O"), Opt(Chr(".")), Opt(S),
             Lit(<<"B","o","x">>), S, Plus(D)>>) >>

\* [a-zA-Z0-9._%+-]+@[a-zA-Z0-9.-]+\.[a-zA-Z]{2,}
email_pattern ==
    Cat(<<Plus(In(Letter \cup Digit \cup {".", "_", "%", "+", "-"})), Chr("@"),
          Plus(In(Letter \cup Digit \cup {".", "-"})), Chr("."),
          Rep(In(Letter), 2, Unbounded)>>)

PhoneSep == Opt(In({"-", "."} \cup Space))            \* [-.\s]?
\* \(?\d{3}\)?[-.\s]?\d{3}[-.\s]?\d{4}
ParenPhone ==
    Cat(<<Opt(Chr("(")), Dn(3), Opt(Chr(")")), PhoneSep, Dn(3), PhoneSep, Dn(4)>>)
\* \d{3}[-.\s]?\d{3}[-.\s]?\d{4}
PlainPhone == Cat(<<Dn(3), PhoneSep, Dn(3), PhoneSep, Dn(4)>>)

phone_patterns ==
    << Cat(<<Opt(Chr("+")), Rep(D, 1, 3), PhoneSep, Opt(Chr("(")), Dn(3),
             Opt(Chr(")")), PhoneSep, Dn(3), PhoneSep, Dn(4)>>),
       ParenPhone,
       PlainPhone,
       Cat(<<Lit(<<"C","a","l","l"," ","u","s",":">>),
             LazyRep(In(AnyChar), 0, Unbounded), ParenPhone>>),
       Cat(<<Lit(<<"S","u","p","p","o","r","t",":">>),
             LazyRep(In(AnyChar), 0, Unbounded), PlainPhone>>) >>

\* (?:Invoice|INV)[-:#\s]*
InvoiceLabel ==
    Cat(<<Alt(<<Lit(<<"I","n","v","o","i","c","e">>), Lit(<<"I","N","V">>)>>),
          Star(In({"-", ":", "#"} \cup Space))>>)

invoice_patterns ==
    << Cat(<<InvoiceLabel, Plus(D)>>),
       Cat(<<InvoiceLabel, Plus(In(UpperSet \cup Digit \cup {"-"}))>>) >>

price_pattern == NumberRe

(***************************************************************************)
(* dateutil.parser.parse(date_str, fuzzy=True), as extract_dates calls it, *)
(* on the strings the three date patterns can match: number, separator,    *)
(* number, separator, number; or two numbers and one word.                 *)
(***************************************************************************)
\* The wall clock shows FirstDay at the start and moves on a day at a time
FirstDay == [year |-> 2026, month |-> 1, day |-> 30]

IsLeap(y) == y % 4 = 0 /\ (y % 100 # 0 \/ y % 400 = 0)
\* calendar.monthrange(y, m)[1]
DaysInMonth(y, m) ==
    IF m = 2 THEN (IF IsLeap(y) THEN 29 ELSE 28)
    ELSE IF m \in {4, 6, 9, 11} THEN 30 ELSE 31

NextDay(d) ==
    IF d.day < DaysInMonth(d.year, d.month) THEN [d EXCEPT !.day = d.day + 1]
    ELSE IF d.month < 12 THEN [d EXCEPT !.month = d.month + 1, !.day = 1]
    ELSE [year |-> d.year + 1, month |-> 1, day |-> 1]

\* datetime.now() on the i-th day of the run
RECURSIVE DayAt(_)
DayAt(i) == IF i = 1 THEN FirstDay ELSE NextDay(DayAt(i - 1))

\* parserinfo._year, read from the clock once, when dateutil is imported
ImportYear == FirstDay.year

\* parserinfo.MONTHS, lower case: the names of month i
MONTHS ==
    << {<<"j","a","n">>, <<"j","a","n","u","a","r","y">>},
       {<<"f","e","b">>, <<"f","e","b","r","u","a","r","y">>},
       {<<"m","a","r">>, <<"m","a","r","c","h">>},
       {<<"a","p","r">>, <<"a","p","r","i","l">>},
       {<<"m","a","y">>},
       {<<"j","u","n">>, <<"j","u","n","e">>},
       {<<"j","u","l">>, <<"j","u","l","y">>},
       {<<"a","u","g">>, <<"a","u","g","u","s","t">>},
       {<<"s","e","p">>, <<"s","e","p","t">>, <<"s","e","p","t","e","m","b","e","r">>},
       {<<"o","c","t">>, <<"o","c","t","o","b","e","r">>},
       {<<"n","o","v">>, <<"n","o","v","e","m","b","e","r">>},
       {<<"d","e","c">>, <<"d","e","c","e","m","b","e","r">>} >>

\* int() of a string of digits
RECURSIVE IntOf(_)
IntOf(ds) ==
    IF ds = <<>> THEN 0
    ELSE 10 * IntOf(SubSeq(ds, 1, Len(ds) - 1)) + DigitVal(ds[Len(ds)])

\* parserinfo.month(name): the number of the month, 0 for None
MonthOf(name) ==
    LET low == [i \in DOMAIN name |-> ToLower(name[i])]
        found == {i \in DOMAIN MONTHS : low \in MONTHS[i]}
    IN  IF found = {} THEN 0 ELSE CHOOSE i \in found : TRUE

\* parserinfo.convertyear
convertyear(year, century_specified) ==
    LET century == (ImportYear \div 100) * 100
        y == year + century
    IN  IF year < 100 /\ ~century_specified
        THEN IF y >= ImportYear + 50 THEN y - 100
             ELSE IF y < ImportYear - 50 THEN y + 100
             ELSE y
        ELSE year

None == 0 - 1
Rejected == [ok |-> FALSE, year |-> 0, month |-> 0, day |-> 0]

\* parser._build_naive after parserinfo.validate: the fields the string
\* does not give come from default (datetime.now()); a missing day is cut
\* to the length of the month; replace() rejects what is no date.
build_naive(y, m, d, century_specified, default) ==
    LET year == IF y = None THEN default.year ELSE convertyear(y, century_specified)
        month == IF m = None THEN default.month ELSE m
        valid_ym == year \in 1..9999 /\ month \in 1..12
        day == IF d # None THEN d
               ELSE IF valid_ym /\ default.day > DaysInMonth(year, month)
                    THEN DaysInMonth(year, month)
                    ELSE default.day
    IN  IF valid_ym /\ day \in 1..DaysInMonth(year, month)
        THEN [ok |-> TRUE, year |-> year, month |-> month, day |-> day]
        ELSE Rejected

\* _ymd.resolve_ymd and _build_naive for three numbers a b c (no word):
\* a number written with more than two digits is the year (two of them
\* are refused); else the first above 31 is a year, else above 12 a day,
\* else a month.
ParseNumeric(s, nums, default) ==
    LET as == Slice(s, nums[1])
        bs == Slice(s, nums[2])
        cs == Slice(s, nums[3])
        a == IntOf(as)
        b == IntOf(bs)
        c == IntOf(cs)
        sep1 == s[nums[1][2] + 1]
        sep2 == s[nums[2][2] + 1]
        \* after a second, equal separator the third number is appended as
        \* text (a year when longer than 2), otherwise as a number (> 100)
        yc == IF sep1 = sep2 THEN Len(cs) > 2 ELSE c > 100
        ya == Len(as) > 2
        yb == Len(bs) > 2
        century == ya \/ yb \/ yc
    IN  IF (ya /\ yb) \/ (ya /\ yc) \/ (yb /\ yc) THEN Rejected
        ELSE IF a > 31 \/ ya THEN build_naive(a, b, c, century, default)
        ELSE IF a > 12 THEN build_naive(c, b, a, century, default)
        ELSE build_naive(c, a, b, century, default)

\* The same for two numbers n1 n2 and a word: a month name gives the
\* month; any other word is skipped (fuzzy) and leaves two numbers.
ParseWorded(s, nums, word, default) ==
    LET n1 == IntOf(Slice(s, nums[1]))
        n2 == IntOf(Slice(s, nums[2]))
        month == MonthOf(Slice(s, word))
        century == n1 > 100 \/ n2 > 100
    IN  IF month # 0
        THEN \* a number above 100 is the year; else a first number above 31 is
             \* the year and the other the day; else day first, year last
             IF n2 > 100 THEN build_naive(n2, month, n1, century, default)
             ELSE IF n1 > 31 THEN build_naive(n1, month, n2, century, default)
             ELSE build_naive(n2, month, n1, century, default)
        ELSE IF n1 > 31 THEN build_naive(n1, n2, None, century, default)
             ELSE IF n2 > 31 THEN build_naive(n2, n1, None, century, default)
             ELSE build_naive(None, n1, n2, century, default)

\* date_parser.parse(date_str, fuzzy=True): [ok |-> FALSE] when it raises
date_parser_parse(s, default) ==
    LET nums == finditer(Plus(D), FALSE, s)
        word == search(Plus(In(Letter)), FALSE, s)
    IN  IF word = <<>> THEN ParseNumeric(s, nums, default)
        ELSE ParseWorded(s, nums, word, default)

(***************************************************************************)
(* The extractors of DataParser                                            *)
(***************************************************************************)
\* The outcome of a block of code: it raised, or it produced a value
Raised == [raised |-> TRUE, value |-> <<>>]
Returned(v) == [raised |-> FALSE, value |-> v]

\* a faulty variant: no handler: the exception leaves the extractor
no_except(body) == body

\* try: <body>  except Exception: return []   (every extractor ends so)
try_except(body) == IF body.raised THEN Returned(<<>>) ELSE body

RECURSIVE ConcatAll(_)
ConcatAll(seqs) == IF seqs = <<>> THEN <<>> ELSE Head(seqs) \o ConcatAll(Tail(seqs))

\* the first match of each pattern only
FirstMatches(patterns, ic, text) ==
    ConcatAll([i \in DOMAIN patterns |->
                  LET first == search(patterns[i], ic, text)
                  IN  IF first = <<>> THEN <<>> ELSE <<first>>])

\* for pattern in patterns: for match in re.finditer(pattern, text, flags)
AllMatches(patterns, ic, text) ==
    ConcatAll([i \in DOMAIN patterns |-> finditer(patterns[i], ic, text)])

IsSpace(c) == c \in Space
\* str.strip()
Strip(str) ==
    LET solid == {i \in DOMAIN str : ~IsSpace(str[i])}
    IN  IF solid = {} THEN <<>> ELSE SubSeq(str, Min(solid), Max(solid))

\* sub in str
Contains(str, sub) == search(Lit(sub), FALSE, str) # <<>>

\* try: <candidate>  except Exception: continue   (inside the loop over
\* the date matches: the candidate adds nothing, the loop goes on)
except_continue(outcome) == IF outcome.raised THEN Returned(<<>>) ELSE outcome

\* one turn of the loop of extract_dates: parse the match, append its entry
date_candidate(text, match, default) ==
    LET date_str == Slice(text, match)
        parsed_date == date_parser_parse(date_str, default)
    IN  IF ~parsed_date.ok THEN Raised
        ELSE Returned(<<[date_str |-> date_str,
                         parsed |-> <<parsed_date.year, parsed_date.month, parsed_date.day>>,
                         position |-> match]>>)

\* extract_dates, the body of its try block
dates_body(text, default, fault) ==
    LET matches == AllMatches(date_patterns, TRUE, text)
        turns == [i \in DOMAIN matches |->
                     except_continue(date_candidate(text, matches[i], default))]
    IN  IF fault \/ \E i \in DOMAIN turns : turns[i].raised THEN Raised
        ELSE Returned(ConcatAll([i \in DOMAIN turns |-> turns[i].value]))

extract_dates(text, default, fault) == try_except(dates_body(text, default, fault))

\* str.replace(',', '')
NotComma(c) == c # ","
WithoutCommas(str) == SelectSeq(str, NotComma)

\* a faulty variant: the digits before the point only
WholeOf(str) ==
    LET dots == {i \in DOMAIN str : str[i] = "."}
    IN  IF dots = {} THEN 100 * IntOf(str)
        ELSE 100 * IntOf(SubSeq(str, 1, Min(dots) - 1))

\* float() of digits with an optional fraction of two digits, in hundredths
FloatOf(str) ==
    LET dots == {i \in DOMAIN str : str[i] = "."}
    IN  IF dots = {} THEN 100 * IntOf(str)
        ELSE 100 * IntOf(SubSeq(str, 1, Min(dots) - 1))
             + IntOf(SubSeq(str, Min(dots) + 1, Len(str)))

\* the chain without its branches for the codes
CurrencyOfSymbol(amount_str) ==
    IF Contains(amount_str, <<Dollar>>) THEN "USD"
    ELSE IF Contains(amount_str, <<Euro>>) THEN "EUR"
    ELSE IF Contains(amount_str, <<Pound>>) THEN "GBP"
    ELSE IF Contains(amount_str, <<Yen>>) THEN "JPY"
    ELSE "None"

\* the if/elif chain of extract_amounts
CurrencyOf(amount_str) ==
    IF Contains(amount_str, <<Dollar>>) THEN "USD"
    ELSE IF Contains(amount_str, <<Euro>>) THEN "EUR"
    ELSE IF Contains(amount_str, <<Pound>>) THEN "GBP"
    ELSE IF Contains(amount_str, <<Yen>>) THEN "JPY"
    ELSE IF Contains(amount_str, <<"U","S","D">>) THEN "USD"
    ELSE IF Contains(amount_str, <<"E","U","R">>) THEN "EUR"
    ELSE IF Contains(amount_str, <<"G","B","P">>) THEN "GBP"
    ELSE IF Contains(amount_str, <<"J","P","Y">>) THEN "JPY"
    ELSE "None"

\* extract_amounts, the body of its try block; re.search(...).group() on
\* no match raises
amounts_body(text, fault) ==
    LET matches == AllMatches(amount_patterns, FALSE, text)
        str(i) == Slice(text, matches[i])
        number(i) == search(NumberRe, FALSE, str(i))
    IN  IF fault \/ \E i \in DOMAIN matches : number(i) = <<>> THEN Raised
        ELSE Returned([i \in DOMAIN matches |->
                 [amount_str |-> str(i),
                  numeric_value |-> FloatOf(WithoutCommas(Slice(str(i), number(i)))),
                  currency |-> CurrencyOf(str(i)),
                  position |-> matches[i]]])

extract_amounts(text, fault) == try_except(amounts_body(text, fault))

addresses_body(text, fault) ==
    LET matches == AllMatches(address_patterns, TRUE, text)
    IN  IF fault THEN Raised
        ELSE Returned([i \in DOMAIN matches |->
                 [address |-> Strip(Slice(text, matches[i])),
                  position |-> matches[i]]])

extract_addresses(text, fault) == try_except(addresses_body(text, fault))

\* a faulty variant: re.search in place of re.finditer, the first match only
emails_first(text, fault) ==
    LET match == search(email_pattern, FALSE, text)
    IN  IF fault THEN Raised
        ELSE IF match = <<>> THEN Returned(<<>>)
        ELSE Returned(<<[email |-> Slice(text, match), position |-> match]>>)

emails_body(text, fault) ==
    LET matches == finditer(email_pattern, FALSE, text)
    IN  IF fault THEN Raised
        ELSE Returned([i \in DOMAIN matches |->
                 [email |-> Slice(text, matches[i]), position |-> matches[i]]])

extract_emails(text, fault) == try_except(emails_body(text, fault))

\* The phone number of one match: a match with a colon keeps only the
\* number found inside it, and is skipped (<<>>) when there is none.
\* the matched text kept whole
WholeMatch(matched_text) == <<matched_text>>

\* phone_number: the matched text, or the number found in it after a colon
PhoneOf(matched_text) ==
    LET inner == search(ParenPhone, FALSE, matched_text)
    IN  IF Contains(matched_text, <<":">>)
        THEN (IF inner # <<>> THEN <<Slice(matched_text, inner)>> ELSE <<>>)
        ELSE <<matched_text>>

phones_body(text, fault) ==
    LET matches == AllMatches(phone_patterns, TRUE, text)
        number(i) == PhoneOf(Slice(text, matches[i]))
        entry(i) == [phone |-> IF number(i) = <<>> THEN <<>> ELSE Strip(number(i)[1]),
                     position |-> matches[i],
                     skip |-> number(i) = <<>>]
        appended(e) == ~e.skip
        kept == SelectSeq([i \in DOMAIN matches |-> entry(i)], appended)
    IN  IF fault THEN Raised
        ELSE Returned([i \in DOMAIN kept |->
                 [phone |-> kept[i].phone, position |-> kept[i].position]])

extract_phone_numbers(text, fault) == try_except(phones_body(text, fault))

\* a faulty variant: a match whose text was already found is left out
invoices_unique(text, fault) ==
    LET matches == AllMatches(invoice_patterns, TRUE, text)
        new(i) == \A j \in 1..(i - 1) : Slice(text, matches[j]) # Slice(text, matches[i])
        entry(i) == IF new(i) THEN <<[invoice_number |-> Slice(text, matches[i]),
                                      position |-> matches[i]]>>
                    ELSE <<>>
    IN  IF fault THEN Raised
        ELSE Returned(ConcatAll([i \in DOMAIN matches |-> entry(i)]))

invoices_body(text, fault) ==
    LET matches == AllMatches(invoice_patterns, TRUE, text)
    IN  IF fault THEN Raised
        ELSE Returned([i \in DOMAIN matches |->
                 [invoice_number |-> Slice(text, matches[i]),
                  position |-> matches[i]]])

extract_invoice_numbers(text, fault) == try_except(invoices_body(text, fault))

\* text.split('\n')
SplitLines(text) ==
    LET breaks == {i \in DOMAIN text : text[i] = NL}
        n == Cardinality(breaks)
        kth(k) == IF k = 0 THEN 0
                  ELSE IF k = n + 1 THEN Len(text) + 1
                  ELSE CHOOSE i \in breaks : Cardinality({j \in breaks : j < i}) = k - 1
    IN  [k \in 1..(n + 1) |-> SubSeq(text, kth(k - 1) + 1, kth(k) - 1)]

\* a faulty variant: the price is the last number of the line
items_last_number(text, fault) ==
    LET lines == SplitLines(text)
        prices(i) == finditer(price_pattern, FALSE, lines[i])
        price(i) == prices(i)[Len(prices(i))]
        description(i) == Strip(SubSeq(lines[i], 1, price(i)[1]))
        entry(i) ==
            IF Len(Strip(lines[i])) < 5 \/ prices(i) = <<>> \/ description(i) = <<>>
            THEN <<>>
            ELSE <<[description |-> description(i), price |-> Slice(lines[i], price(i)),
                    line |-> Strip(lines[i])]>>
    IN  IF fault THEN Raised
        ELSE Returned(ConcatAll([i \in DOMAIN lines |-> entry(i)]))

items_body(text, fault) ==
    LET lines == SplitLines(text)
        price(i) == search(price_pattern, FALSE, lines[i])
        description(i) == Strip(SubSeq(lines[i], 1, price(i)[1]))
        entry(i) ==
            IF Len(Strip(lines[i])) < 5 \/ price(i) = <<>> \/ description(i) = <<>>
            THEN [skip |-> TRUE, description |-> <<>>, price |-> <<>>, line |-> <<>>]
            ELSE [skip |-> FALSE, description |-> description(i),
                  price |-> Slice(lines[i], price(i)), line |-> Strip(lines[i])]
        appended(e) == ~e.skip
        kept == SelectSeq([i \in DOMAIN lines |-> entry(i)], appended)
    IN  IF fault THEN Raised
        ELSE Returned([i \in DOMAIN kept |->
                 [description |-> kept[i].description, price |-> kept[i].price,
                  line |-> kept[i].line]])

extract_item_descriptions(text, fault) == try_except(items_body(text, fault))

(***************************************************************************)
(* The values parse_text is called with                                    *)
(***************************************************************************)
Str(chars) == [type |-> "str", chars |-> chars, truthy |-> chars # <<>>]
NoneValue == [type |-> "NoneType", chars |-> <<>>, truthy |-> FALSE]
\* other values that are no str: 0, 5, b"", b"$5", [], ["$5"]
NonStrings ==
    {NoneValue} \cup
    {[type |-> ty, chars |-> <<>>, truthy |-> b] :
        ty \in {"int", "bytes", "list"}, b \in BOOLEAN}

\* the texts of tests/test_ocr.py
DateSample ==
    <<"I","n","v","o","i","c","e"," ","D","a","t","e",":"," ","0","1","/","1",
      "5","/","2","0","2","3",NL,"D","u","e"," ","D","a","t","e",":"," ","0",
      "2","/","1","5","/","2","0","2","3",NL,"O","r","d","e","r"," ","D","a",
      "t","e",":"," ","J","a","n","u","a","r","y"," ","1","0",","," ","2","0",
      "2","3">>

AmountSample ==
    <<"S","u","b","t","o","t","a","l",":"," ","$","1","0","0",".","0","0",NL,
      "T","a","x",":"," ","$","8",".","5","0",NL,"T","o","t","a","l",":"," ",
      "$","1","0","8",".","5","0">>

PhoneSample ==
    <<"C","a","l","l"," ","u","s",":"," ","(","1","2","3",")"," ","4","5","6",
      "-","7","8","9","0",NL,"S","u","p","p","o","r","t",":"," ","1","2","3",
      "-","4","5","6","-","7","8","9","1">>

EmailSample ==
    <<"C","o","n","t","a","c","t"," ","u","s"," ","a","t",":"," ","s","u","p",
      "p","o","r","t","@","e","x","a","m","p","l","e",".","c","o","m",NL,"S",
      "a","l","e","s",":"," ","s","a","l","e","s","@","e","x","a","m","p","l",
      "e",".","c","o","m">>

ClockSample ==
    <<"M","a","r","k","e","t"," ","1","2"," ","2","0","2","4">>

\* a date, an amount and a candidate that is no date on one line
MixedSample ==
    <<"D","u","e"," ","0","2","/","1","5","/","2","0","2","3"," ","$","8",".","5","0"," ","1","3","/","4","5","/","2","3">>

\* a sample as the tests write it, in a triple-quoted string: a newline
\* and eight spaces before every line and after the last
Pad == <<" "," "," "," "," "," "," "," ">>
Indent(sample) ==
    ConcatAll([i \in DOMAIN SplitLines(sample) |-> <<NL>> \o Pad \o SplitLines(sample)[i]])
        \o <<NL>> \o Pad

SampleTexts ==
    {DateSample, AmountSample, PhoneSample, EmailSample, ClockSample, MixedSample,
     Indent(DateSample), Indent(AmountSample), Indent(PhoneSample), Indent(EmailSample)}

(***************************************************************************)
(* Families of texts: every text made of up to MaxFrags pieces of a        *)
(* vocabulary, and the text of the test the family belongs to              *)
(***************************************************************************)
MaxFrags == 2
MaxLines == 2

Phrases(vocabulary, n) ==
    UNION {{ConcatAll(f) : f \in [1..k -> vocabulary]} : k \in 1..n}

\* dates the parser takes and one it rejects, a year-first date, a label, a digit
DateVocabulary ==
    {<<"0","1","/","1","5","/","2","0","2","3">>,
     <<"1","3","/","4","5","/","2","0","2","3">>,
     <<"2","0","2","3","-","0","1","-","1","5">>,
     <<"3","-","4","-","7","0">>,
     <<"1","0"," ","M","a","r"," ","2","3">>,
     <<"D","u","e",":"," ">>,
     <<"1">>}

DateInputs ==
    {Str(t) : t \in Phrases(DateVocabulary, MaxFrags) \cup {DateSample, Indent(DateSample), ClockSample}}

\* the labels and amounts of receipt lines
AmountLabels ==
    {<<"T","a","x",":"," ">>,
     <<"I","t","e","m"," ","2",":"," ">>,
     <<"I","t","e","m"," ","2"," ">>}
AmountValues ==
    {<<Dollar,"8",".","5","0">>,
     <<Dollar,"1","0","0">>,
     <<Dollar,"1",",","2","3","4",".","5","6">>}

Lines == {label \o amount : label \in AmountLabels, amount \in AmountValues}

\* '\n'.join(lines)
RECURSIVE JoinLines(_)
JoinLines(lines) ==
    IF Len(lines) = 1 THEN lines[1]
    ELSE lines[1] \o <<NL>> \o JoinLines(Tail(lines))

LabelledTexts == UNION {{JoinLines(f) : f \in [1..k -> Lines]} : k \in 1..MaxLines}

\* currency symbols and codes around numbers
AmountVocabulary ==
    {<<Dollar>>,
     <<Yen>>,
     <<"5">>,
     <<"1",",","0","0","0",".","5","0">>,
     <<"1","2",".","5">>,
     <<"U","S","D">>,
     <<"J","P","Y">>,
     <<" ">>}
OtherCurrencies ==
    {<<Euro,"5">>,
     <<"5"," ",Pound>>,
     <<"E","U","R"," ","5">>,
     <<"5","G","B","P">>,
     <<Pound," ","5"," ","E","U","R">>}

AmountInputs ==
    {Str(t) : t \in LabelledTexts \cup Phrases(AmountVocabulary, MaxFrags)
                    \cup OtherCurrencies \cup {AmountSample, Indent(AmountSample)}}

\* labels, numbers, and text between them
PhoneVocabulary ==
    {<<"C","a","l","l"," ","u","s",":"," ">>,
     <<"S","u","p","p","o","r","t",":"," ">>,
     <<"(","1","2","3",")"," ","4","5","6","-","7","8","9","0">>,
     <<"1","2","3","-","4","5","6","-","7","8","9","1">>,
     <<"+","1"," ">>,
     <<"n","o","w"," ">>,
     <<"1","2">>,
     <<NL>>}

PhoneInputs ==
    {Str(t) : t \in Phrases(PhoneVocabulary, MaxFrags) \cup {PhoneSample, Indent(PhoneSample)}}

\* lines of a receipt: with a number after words, before them, without
\* one, short, and short once trimmed
ItemLines ==
    {<<"W","i","d","g","e","t"," ","1","2">>,
     <<"W","i","d","g","e","t"," ",Dollar,"3",".","5","0"," ","x","2">>,
     <<"1","2"," ","W","i","d","g","e","t">>,
     <<"N","o"," ","p","r","i","c","e">>,
     <<"a","b"," ","1">>,
     <<" "," ","a","b"," ","1"," ">>,
     <<"a"," ","1",",","0","0","0",".","5","0">>,
     <<" "," ","T","e","a"," ","2"," "," ">>}

ItemInputs ==
    {Str(t) : t \in UNION {{JoinLines(f) : f \in [1..k -> ItemLines]} : k \in 1..MaxLines}
                    \cup {AmountSample, Indent(AmountSample)}}

\* invoice labels, numbers of digits and of letters, a word
InvoiceVocabulary ==
    {<<"I","n","v","o","i","c","e",":"," ">>,
     <<"I","N","V","-">>,
     <<"1","2","3","4","5">>,
     <<"A","B","C","-","1","2","3","4","5">>,
     <<"n","u","m","b","e","r"," ">>,
     <<"#">>,
     <<NL>>}

InvoiceInputs ==
    {Str(t) : t \in Phrases(InvoiceVocabulary, MaxFrags) \cup {PhoneSample, MixedSample}}

\* the first line of a statement, and the lines under it: rows with and
\* without a date, lines of totals, a line of words
TableHeads ==
    {<<"D","a","t","e"," ","D","e","s","c","r","i","p","t","i","o","n"," ","C","h","a","r","g","e","s">>,
     <<"S","t","a","t","e","m","e","n","t">>,
     <<"N","o","t","e","s">>}
TableLines ==
    {<<"1","2","-","0","8","-","2","9"," ","C","l","e","a","n","i","n","g"," ",Dollar,"3","0">>,
     <<"C","l","e","a","n","i","n","g"," ",Dollar,"3","0">>,
     <<"T","o","t","a","l",":"," ",Dollar,"3","0">>,
     <<"S","U","B","T","O","T","A","L"," ",Dollar,"3","0">>,
     <<"T","h","a","n","k","s">>}

\* a header line followed by the line of one row
TableSample == <<"D","a","t","e"," ","D","e","s","c","r","i","p","t","i","o","n"," ","C","h","a","r","g","e","s",NL,"1","2","-","0","8","-","2","9"," ","C","l","e","a","n","i","n","g"," ",Dollar,"3","0">>

TableInputs ==
    {Str(JoinLines(<<head>> \o under)) :
        head \in TableHeads,
        under \in UNION {[1..k -> TableLines] : k \in 1..MaxLines}}

\* addresses, an address whose last part is too short, half an address,
\* a label, and what may stand between addresses
EmailVocabulary ==
    {<<"s","u","p","p","o","r","t","@","e","x","a","m","p","l","e",".","c","o","m">>,
     <<"a","@","b",".","c","o">>,
     <<"x","@","y",".","z">>,
     <<"u","s","@">>,
     <<"S","a","l","e","s",":"," ">>,
     <<" ">>,
     <<",">>,
     <<NL>>}

EmailInputs ==
    {Str(t) : t \in Phrases(EmailVocabulary, MaxFrags) \cup {EmailSample, Indent(EmailSample)}}

(***************************************************************************)
(* parse_text, one step per statement; requests run it concurrently on the *)
(* one DataParser that app.py creates                                      *)
(***************************************************************************)
NumRequests == 2
MaxDays == 2

Requests == 1..NumRequests
NoFault == "none"
Kinds == <<"dates", "amounts", "addresses", "emails", "phone_numbers",
           "invoice_numbers", "item_descriptions">>
Faults == {NoFault} \cup Range(Kinds)

Idle == [pc |-> "idle", text |-> NoneValue, fault |-> NoFault, day |-> 0,
         result |-> <<>>]

\* DataParser.__init__ sets no attribute; no request has come, no image
\* has been processed and nothing has been logged; the folders hold what
\* earlier runs of the application left: the two files of an upload of two
\* days ago, a directory of that day, and a file of yesterday
Init ==
    /\ now = 1
    /\ fields = <<>>
    /\ req = [r \in Requests |-> Idle]
    /\ memo = <<>>
    /\ web = [pc |-> "idle", upload |-> [part |-> FALSE, filename |-> <<>>],
              saved |-> FALSE,
              engine |-> [raised |-> FALSE, text |-> <<>>, cause |-> ""],
              text |-> <<>>,
              response |-> [status |-> 0, error |-> "",
                            extracted_text |-> <<>>, parsed_data |-> <<>>]]
    /\ job = [pc |-> "idle", failing |-> {},
              file |-> [readable |-> FALSE, channels |-> 3, skewed |-> FALSE],
              options |-> [resize |-> TRUE, denoise |-> TRUE,
                           deskew_image |-> TRUE,
                           threshold_method |-> "adaptive"],
              result |-> [ok |-> FALSE, channels |-> 0, skewed |-> FALSE,
                          steps |-> <<>>]]
    /\ log = {}
    /\ data = [pc |-> "idle", reading |-> [raised |-> FALSE, tokens |-> <<>>],
               result |-> <<>>]
    /\ scan = [pc |-> "idle", lines |-> <<>>, i |-> 0, tables |-> <<>>,
               current_table |-> <<>>, current_indent |-> None]
    /\ disk = [uploads |->
                 {[name |-> <<"a","_","0","-","4","z",".","p","n","g">>,
                  mtime |-> 0 - 1, dir |-> FALSE, id |-> <<"0","-","4","z">>],
                  [name |-> <<"t","m","p">>,
                  mtime |-> 0 - 1, dir |-> TRUE, id |-> <<>>],
                  [name |-> <<"b","_","9","-","4","y",".","p","n","g">>,
                  mtime |-> 0, dir |-> FALSE, id |-> <<"9","-","4","y">>]},
               processed |->
                 {[name |-> <<"p","r","o","c","e","s","s","e","d","_","a","_","0","-","4","z",".","p","n","g">>,
                  mtime |-> 0 - 1, dir |-> FALSE, id |-> <<"0","-","4","z">>]}]
    /\ page = [pc |-> "idle", served |-> 0,
               before |-> [uploads |-> {}, processed |-> {}],
               time |-> 0, failing |-> {}, process_id |-> <<>>,
               shown |-> FALSE,
               original |-> [name |-> <<>>, mtime |-> 0, dir |-> FALSE,
                             id |-> <<>>],
               processed |-> [name |-> <<>>, mtime |-> 0, dir |-> FALSE,
                              id |-> <<>>]]

\* the clock moves on to the next day
Tick ==
    /\ now < MaxDays
    /\ now' = now + 1
    /\ UNCHANGED <<fields, req, memo, web, job, log, data, scan, disk, page>>

\* a caller calls data_parser.parse_text(text); fault names the extractor
\* in whose try block something raises during this call, if any
Call(r, inputs, faults) ==
    /\ req[r].pc = "idle"
    /\ \E v \in inputs, f \in faults :
          req' = [req EXCEPT ![r] = [Idle EXCEPT !.pc = "check", !.text = v,
                                                  !.fault = f]]
    /\ UNCHANGED <<now, fields, memo, web, job, log, data, scan, disk, page>>

\* a faulty variant: the guard without its isinstance test
InvalidFalsy(v) == ~v.truthy

\* a faulty variant: a text of white space counts as no text
InvalidBlank(v) == ~v.truthy \/ v.type # "str" \/ Strip(v.chars) = <<>>

\* not text or not isinstance(text, str)
Invalid(v) == ~v.truthy \/ v.type # "str"

Remember(call) ==
    IF memo = <<>> THEN <<[text |-> call.text, result |-> call.result]>> ELSE memo

\* if not text or not isinstance(text, str): return {}
Check(r) ==
    /\ req[r].pc = "check"
    /\ LET done == [req[r] EXCEPT !.pc = "returned", !.result = <<>>]
       IN  IF Invalid(req[r].text)
           THEN req' = [req EXCEPT ![r] = done] /\ memo' = Remember(done)
           ELSE req' = [req EXCEPT ![r].pc = Kinds[1]] /\ memo' = memo
    /\ UNCHANGED <<now, fields, web, job, log, data, scan, disk, page>>

NextPc(kind) ==
    LET i == IndexOf(Kinds, kind)
    IN  IF i < Len(Kinds) THEN Kinds[i + 1] ELSE "log"

\* something raises in the try block of extractor kind: the injected
\* fault, or re, which raises TypeError on a text that is no str
Fails(call, kind) == call.fault = kind \/ call.text.type # "str"

\* a faulty variant: an extractor that comes back empty after a failure takes the
\* lists stored before it with it
StoreOrReset(r, kind, outcome, day) ==
    /\ req[r].pc = kind
    /\ req' = [req EXCEPT ![r] =
                 IF outcome.raised THEN [@ EXCEPT !.pc = "raised", !.day = day]
                 ELSE [@ EXCEPT !.pc = NextPc(kind), !.day = day,
                                !.result = IF Fails(req[r], kind)
                                           THEN [k \in DOMAIN @ \cup {kind} |-> <<>>]
                                           ELSE (kind :> outcome.value) @@ @]]
    /\ UNCHANGED <<now, fields, memo, web, job, log, data, scan, disk, page>>

\* result[kind] = self.extract_<kind>(text); an exception the extractor
\* lets out leaves parse_text, which has no handler
Store(r, kind, outcome, day) ==
    /\ req[r].pc = kind
    /\ req' = [req EXCEPT ![r] =
                 IF outcome.raised THEN [@ EXCEPT !.pc = "raised", !.day = day]
                 ELSE [@ EXCEPT !.pc = NextPc(kind), !.day = day,
                                !.result = (kind :> outcome.value) @@ @]]
    /\ UNCHANGED <<now, fields, memo, web, job, log, data, scan, disk, page>>

ExtractDates(r) ==
    Store(r, "dates",
          extract_dates(req[r].text.chars, DayAt(now), Fails(req[r], "dates")), now)

\* a faulty variant: the amounts are collected in a list kept on the instance
ExtractAmountsShared(r) ==
    LET found == extract_amounts(req[r].text.chars, Fails(req[r], "amounts")).value
        kept == IF "amounts" \in DOMAIN fields THEN fields["amounts"] ELSE <<>>
    IN  /\ req[r].pc = "amounts"
        /\ fields' = ("amounts" :> (kept \o found)) @@ fields
        /\ req' = [req EXCEPT ![r] =
                     [@ EXCEPT !.pc = NextPc("amounts"),
                               !.result = ("amounts" :> (kept \o found)) @@ @]]
        /\ UNCHANGED <<now, memo, web, job, log, data, scan, disk, page>>

ExtractAmounts(r) ==
    Store(r, "amounts",
          extract_amounts(req[r].text.chars, Fails(req[r], "amounts")), req[r].day)

ExtractAddresses(r) ==
    Store(r, "addresses",
          extract_addresses(req[r].text.chars, Fails(req[r], "addresses")), req[r].day)

ExtractEmails(r) ==
    Store(r, "emails",
          extract_emails(req[r].text.chars, Fails(req[r], "emails")), req[r].day)

ExtractPhoneNumbers(r) ==
    Store(r, "phone_numbers",
          extract_phone_numbers(req[r].text.chars, Fails(req[r], "phone_numbers")),
          req[r].day)

ExtractInvoiceNumbers(r) ==
    Store(r, "invoice_numbers",
          extract_invoice_numbers(req[r].text.chars, Fails(req[r], "invoice_numbers")),
          req[r].day)

ExtractItemDescriptions(r) ==
    Store(r, "item_descriptions",
          extract_item_descriptions(req[r].text.chars,
                                    Fails(req[r], "item_descriptions")),
          req[r].day)

\* logger.info(...); return result
Return(r) ==
    /\ req[r].pc = "log"
    /\ req' = [req EXCEPT ![r].pc = "returned"]
    /\ memo' = Remember(req[r])
    /\ UNCHANGED <<now, fields, web, job, log, data, scan, disk, page>>

\* the request that made the call ends; the next one may call
Finish(r) ==
    /\ req[r].pc \in {"returned", "raised"}
    /\ req' = [req EXCEPT ![r] = Idle]
    /\ UNCHANGED <<now, fields, memo, web, job, log, data, scan, disk, page>>

Run(r) ==
    \/ Check(r)
    \/ ExtractDates(r)
    \/ ExtractAmounts(r)
    \/ ExtractAddresses(r)
    \/ ExtractEmails(r)
    \/ ExtractPhoneNumbers(r)
    \/ ExtractInvoiceNumbers(r)
    \/ ExtractItemDescriptions(r)
    \/ Return(r)

\* One call of parse_text, on a test text or on a value that is no text,
\* with a failure in any one extractor
FaultInputs == {Str(t) : t \in SampleTexts \cup {<<>>}} \cup NonStrings
Next ==
    \/ Tick
    \/ Call(1, FaultInputs, Faults)
    \/ Run(1)
Spec == Init /\ [][Next]_vars

\* The web requests of app.py, each calling parse_text on the one
\* data_parser, in any interleaving, one call after another
ConcInputs == {Str(t) : t \in {ClockSample, <<"T","a","x",":"," ",Dollar,"8",".","5","0">>}} \cup {NoneValue}
NextConc ==
    \/ Tick
    \/ \E r \in Requests : Call(r, ConcInputs, {NoFault}) \/ Run(r) \/ Finish(r)
SpecConc == Init /\ [][NextConc]_vars

\* One call of parse_text on a text of one family
NextDates ==
    \/ Tick
    \/ Call(1, DateInputs, {NoFault})
    \/ Run(1)
SpecDates == Init /\ [][NextDates]_vars

NextAmounts ==
    \/ Tick
    \/ Call(1, AmountInputs, {NoFault})
    \/ Run(1)
SpecAmounts == Init /\ [][NextAmounts]_vars

NextItems ==
    \/ Tick
    \/ Call(1, ItemInputs, {NoFault})
    \/ Run(1)
SpecItems == Init /\ [][NextItems]_vars

NextInvoices ==
    \/ Tick
    \/ Call(1, InvoiceInputs, {NoFault})
    \/ Run(1)
SpecInvoices == Init /\ [][NextInvoices]_vars

NextTables ==
    \/ Tick
    \/ Call(1, TableInputs, {NoFault})
    \/ Run(1)
SpecTables == Init /\ [][NextTables]_vars

NextEmails ==
    \/ Tick
    \/ Call(1, EmailInputs, {NoFault})
    \/ Run(1)
SpecEmails == Init /\ [][NextEmails]_vars

\* One call of parse_text on a text of white space, or of white space and
\* a letter, or on the test text of every kind, with a failure in any one
\* extractor
NextText ==
    \/ Tick
    \/ Call(1, {Str(t) : t \in Phrases({<<" ">>, <<"\t">>, <<NL>>, <<"x">>}, MaxFrags)
                            \cup {MixedSample}}, Faults)
    \/ Run(1)
SpecText == Init /\ [][NextText]_vars

NextPhones ==
    \/ Tick
    \/ Call(1, PhoneInputs, {NoFault})
    \/ Run(1)
SpecPhones == Init /\ [][NextPhones]_vars

(***************************************************************************)
(* utils/preprocessing.py: the image pipeline.  An image is its number of  *)
(* channels, whether its text lies skewed, and the operations that made    *)
(* it, in order.  `failing` is the set of methods whose cv2 call raises    *)
(* during the call; a method that catches it writes one line to the log    *)
(* (`errors` collects the methods that did) and hands back its argument.   *)
(***************************************************************************)
NoImage == [ok |-> FALSE, channels |-> 0, skewed |-> FALSE, steps |-> <<>>]

\* the files process_image is called on: one that cv2.imread cannot read,
\* and colour and grey pictures, straight or skewed
Files ==
    {[readable |-> FALSE, channels |-> 3, skewed |-> FALSE]} \cup
    [readable : {TRUE}, channels : {1, 3}, skewed : BOOLEAN]

\* cv2.imread gives None for a file it cannot read; both ways end in None
load_image(file, failing) ==
    IF "load_image" \in failing \/ ~file.readable
    THEN [image |-> NoImage, errors |-> {"load_image"}]
    ELSE [image |-> [ok |-> TRUE, channels |-> file.channels,
                     skewed |-> file.skewed, steps |-> <<"load">>],
          errors |-> {}]

\* an image of two dimensions is returned as it is
convert_to_grayscale(s, failing) ==
    IF s.image.channels = 1 THEN s
    ELSE IF "convert_to_grayscale" \in failing
    THEN [s EXCEPT !.errors = @ \cup {"convert_to_grayscale"}]
    ELSE [s EXCEPT !.image.channels = 1,
                   !.image.steps = Append(@, "grayscale")]

\* called without target_width and scale_factor: the default factor
resize_image(s, failing) ==
    IF "resize_image" \in failing
    THEN [s EXCEPT !.errors = @ \cup {"resize_image"}]
    ELSE [s EXCEPT !.image.steps = Append(@, "resize")]

\* `image` is the grey image by the time fastNlMeansDenoising is called,
\* and it is `image` that the handler returns
remove_noise(s, failing) ==
    LET g == convert_to_grayscale(s, failing)
    IN  IF "remove_noise" \in failing
        THEN [g EXCEPT !.errors = @ \cup {"remove_noise"}]
        ELSE [g EXCEPT !.image.steps = Append(@, "denoise")]

\* the grey copy serves to find the angle only (Otsu's threshold raises
\* on a copy that is not grey): the image is rotated when the angle found
\* is large enough, and returned as it is otherwise
deskew(s, failing) ==
    LET g == convert_to_grayscale(s, failing)
    IN  IF "deskew" \in failing \/ g.image.channels > 1
        THEN [s EXCEPT !.errors = g.errors \cup {"deskew"}]
        ELSE IF s.image.skewed
        THEN [s EXCEPT !.errors = g.errors, !.image.skewed = FALSE,
                       !.image.steps = Append(@, "rotate")]
        ELSE [s EXCEPT !.errors = g.errors]

\* if method == 'simple' ... elif 'otsu' ... elif 'adaptive' ... else:
\* adaptive again.  Otsu's and the adaptive method take an image of one
\* channel only: cv2 raises on the image a failed conversion has left.
apply_thresholding(s, method, failing) ==
    LET g == convert_to_grayscale(s, failing)
        applied == IF method \in {"simple", "otsu"} THEN method ELSE "adaptive"
    IN  IF \/ "apply_thresholding" \in failing
           \/ g.image.channels > 1 /\ applied # "simple"
        THEN [g EXCEPT !.errors = @ \cup {"apply_thresholding"}]
        ELSE [g EXCEPT !.image.steps = Append(@, applied)]

\* a faulty variant: the noise is removed before the image is resized
process_image_denoise_first(file, opt, failing) ==
    LET l == load_image(file, failing)
        g == convert_to_grayscale(l, failing)
        d == IF opt.denoise THEN remove_noise(g, failing) ELSE g
        r == IF opt.resize THEN resize_image(d, failing) ELSE d
        k == IF opt.deskew_image THEN deskew(r, failing) ELSE r
    IN  IF ~l.image.ok THEN l
        ELSE IF "process_image" \in failing
        THEN [image |-> NoImage, errors |-> {"process_image"}]
        ELSE apply_thresholding(k, opt.threshold_method, failing)

\* process_image(image_path, resize, denoise, deskew_image,
\* threshold_method); image.copy() is the one call of its own that can
\* raise, and its handler returns None
process_image(file, opt, failing) ==
    LET l == load_image(file, failing)
        g == convert_to_grayscale(l, failing)
        r == IF opt.resize THEN resize_image(g, failing) ELSE g
        d == IF opt.denoise THEN remove_noise(r, failing) ELSE r
        k == IF opt.deskew_image THEN deskew(d, failing) ELSE d
    IN  IF ~l.image.ok THEN l
        ELSE IF "process_image" \in failing
        THEN [image |-> NoImage, errors |-> {"process_image"}]
        ELSE apply_thresholding(k, opt.threshold_method, failing)

\* the lines logger.error writes for the methods that caught an exception
Errors(sources, cause) == {[source |-> s, cause |-> cause] : s \in sources}

\* One call of process_image, with any options, on any file, with up to
\* MaxFaults of its cv2 calls failing
ProcessImage(file, opt, failing) ==
    /\ job.pc = "idle"
    /\ LET p == process_image(file, opt, failing)
       IN  /\ job' = [pc |-> "returned", file |-> file, options |-> opt,
                      failing |-> failing, result |-> p.image]
           /\ log' = log \cup Errors(p.errors, "cv2.error")
    /\ UNCHANGED <<now, fields, req, memo, web, data, scan, disk, page>>

MaxFaults == 2
Failing ==
    {f \in SUBSET {"load_image", "convert_to_grayscale", "resize_image",
                   "remove_noise", "deskew", "apply_thresholding",
                   "process_image"} : Cardinality(f) <= MaxFaults}
NextImage ==
    \E file \in Files, failing \in Failing,
       opt \in [resize : BOOLEAN, denoise : BOOLEAN, deskew_image : BOOLEAN,
                threshold_method : {"none", "simple", "otsu", "adaptive"}] :
        ProcessImage(file, opt, failing)
SpecImage == Init /\ [][NextImage]_vars

(***************************************************************************)
(* utils/ocr.py and the api_extract handler of app.py.  What the OCR       *)
(* engine does with an image is not the program's to decide: `engine` is   *)
(* what the call of pytesseract came to, a text or an exception.           *)
(***************************************************************************)
Engines ==
    {[raised |-> TRUE, text |-> <<>>, cause |-> c] :
        c \in {"TesseractNotFoundError", "TesseractError"}}
    \cup {[raised |-> FALSE, text |-> t, cause |-> ""] :
        t \in {<<>>, AmountSample, ClockSample}}

\* try: image = Image.open(image_path)
\*      text = pytesseract.image_to_string(image); return text
\* except Exception as e: logger.error(...{e}); return ""
extract_text(engine) ==
    IF engine.raised
    THEN [raised |-> FALSE, text |-> <<>>,
          errors |-> Errors({"extract_text"}, engine.cause)]
    ELSE [raised |-> FALSE, text |-> engine.text, errors |-> {}]

\* a faulty variant: no handler around the engine call
ocr_no_except(engine) ==
    [raised |-> engine.raised, text |-> engine.text, errors |-> {}]

\* try: ... text = pytesseract.image_to_string(img_for_ocr, config=...)
\*      return text
\* except Exception as e: logger.error(...{e}); return ""
extract_text_from_image(engine) ==
    IF engine.raised
    THEN [raised |-> FALSE, text |-> <<>>,
          errors |-> Errors({"extract_text_from_image"}, engine.cause)]
    ELSE [raised |-> FALSE, text |-> engine.text, errors |-> {}]

\* return jsonify({'error': error}), status
Failure(status, error) ==
    [status |-> status, error |-> error, extracted_text |-> <<>>,
     parsed_data |-> <<>>]

(***************************************************************************)
(* app.py: the upload folder and the processed folder, the names the       *)
(* handlers store files under, and the cleanup that runs before every      *)
(* request.  A file is its name, the day it was last written, whether it   *)
(* is a directory, and the id of the upload it was stored for.             *)
(***************************************************************************)
ALLOWED_EXTENSIONS ==
    {<<"p","n","g">>, <<"j","p","g">>, <<"j","p","e","g">>, <<"g","i","f">>, <<"b","m","p">>, <<"t","i","f","f">>, <<"t","i","f">>, <<"p","d","f">>}

\* a faulty variant: any name with a dot in it
allowed_any_dot(filename) == \E i \in DOMAIN filename : filename[i] = "."

\* '.' in filename and filename.rsplit('.', 1)[1].lower() in ALLOWED_EXTENSIONS
allowed_file(filename) ==
    LET dots == {i \in DOMAIN filename : filename[i] = "."}
        tail == SubSeq(filename, Max(dots) + 1, Len(filename))
    IN  /\ dots # {}
        /\ [i \in DOMAIN tail |-> ToLower(tail[i])] \in ALLOWED_EXTENSIONS

\* filename = secure_filename(file.filename), which cuts dots and
\* underscores from both ends of a name of letters and dots;
\* base_filename, ext = os.path.splitext(filename);
\* f"{prefix}{base_filename}_{id}{ext}"
stored_name(prefix, filename, id) ==
    LET solid == {i \in DOMAIN filename : filename[i] \notin {".", "_"}}
        name == IF solid = {} THEN <<>>
                ELSE SubSeq(filename, Min(solid), Max(solid))
        dots == {i \in DOMAIN name : name[i] = "."}
        cut == IF dots = {} THEN Len(name) ELSE Max(dots) - 1
    IN  prefix \o SubSeq(name, 1, cut) \o <<"_">> \o id
               \o SubSeq(name, cut + 1, Len(name))

\* uuid.uuid4(): the third group of a version 4 id begins with 4
Ids == {<<"1","-","4","a">>, <<"2","-","4","b">>}

\* current_time - os.path.getmtime(file_path) > 86400, in days
MaxAge == 1

\* a faulty variant: no handler around os.remove: the first failure ends
\* the cleanup
cleanup_until_failure(folder, time, failing) ==
    LET old == {f \in folder : ~f.dir /\ time - f.mtime > MaxAge}
    IN  IF old \cap failing # {} THEN folder ELSE folder \ old

\* cleanup_old_files, for one folder: a directory is skipped, a file older
\* than a day is removed, and a failure of os.remove is logged and the
\* loop goes on
cleanup_old_files(folder, time, failing) ==
    {f \in folder : f.dir \/ time - f.mtime <= MaxAge \/ f \in failing}

\* before_request: the cleanup, whatever the request is for; `failing` are
\* the files that os.remove raises on; MaxServed requests are followed
MaxServed == 3
BeforeRequest(failing) ==
    /\ page.pc = "idle"
    /\ page.served < MaxServed
    /\ page' = [page EXCEPT !.pc = "routed", !.before = disk, !.time = now,
                            !.failing = failing, !.served = @ + 1]
    /\ disk' = [uploads |-> cleanup_old_files(disk.uploads, now, failing),
                processed |-> cleanup_old_files(disk.processed, now, failing)]
    /\ log' = IF \E f \in failing : ~f.dir /\ now - f.mtime > MaxAge
              THEN log \cup Errors({"cleanup_old_files"}, "OSError") ELSE log
    /\ UNCHANGED <<now, fields, req, memo, web, job, data, scan>>

\* GET /: the upload form
Index ==
    /\ page.pc = "routed"
    /\ page' = [page EXCEPT !.pc = "done"]
    /\ UNCHANGED <<now, fields, req, memo, web, job, log, data, scan, disk>>

\* the response has been sent: the next request may come
Sent ==
    /\ page.pc = "done"
    /\ page' = [page EXCEPT !.pc = "idle", !.shown = FALSE,
                            !.before = [uploads |-> {}, processed |-> {}],
                            !.failing = {}, !.time = 0, !.process_id = <<>>,
                            !.original = [@ EXCEPT !.name = <<>>, !.mtime = 0,
                                                   !.id = <<>>],
                            !.processed = [@ EXCEPT !.name = <<>>, !.mtime = 0,
                                                    !.id = <<>>]]
    /\ UNCHANGED <<now, fields, req, memo, web, job, log, data, scan, disk>>

\* api_extract up to its call of data_parser.parse_text: the three checks
\* of the upload, file.save, process_image and the OCR call; an exception
\* on the way is caught by the handler's own except
ApiExtract(upload, id, file, enable_deskew, failing, engine) ==
    /\ web.pc = "idle"
    /\ req[1].pc = "idle"
    /\ page.pc = "routed"
    /\ \A f \in disk.uploads \cup disk.processed : f.id # id
    /\ LET p == process_image(file,
                    [resize |-> TRUE, denoise |-> TRUE,
                     deskew_image |-> enable_deskew,
                     threshold_method |-> "adaptive"], failing)
           o == extract_text_from_image(engine)
           call == [web EXCEPT !.upload = upload]
           original == [name |-> stored_name(<<>>, upload.filename, id),
                        mtime |-> now, dir |-> FALSE, id |-> id]
           answer(saved, response, lines) ==
               /\ web' = [call EXCEPT !.pc = "done", !.saved = saved,
                                      !.response = response]
               /\ log' = log \cup lines
               /\ req' = req
               /\ disk' = IF saved
                          THEN [disk EXCEPT !.uploads = @ \cup {original}]
                          ELSE disk
       IN  CASE ~upload.part ->
                    answer(FALSE, Failure(400, "No file part"), {})
             [] upload.part /\ upload.filename = <<>> ->
                    answer(FALSE, Failure(400, "No file selected"), {})
             [] upload.part /\ upload.filename # <<>>
                  /\ ~allowed_file(upload.filename) ->
                    answer(FALSE, Failure(400, "File type not allowed"), {})
             [] OTHER ->
                    IF ~p.image.ok
                    THEN answer(TRUE, Failure(500, "Error processing image"),
                                Errors(p.errors, "cv2.error"))
                    ELSE IF o.raised
                    THEN /\ web' = [call EXCEPT !.pc = "done", !.saved = TRUE,
                                      !.engine = engine, !.response =
                                         Failure(500, "Internal server error")]
                         /\ log' = log \cup Errors(p.errors, "cv2.error")
                                       \cup Errors({"api_extract"}, engine.cause)
                         /\ req' = req
                         /\ disk' = [disk EXCEPT !.uploads = @ \cup {original}]
                    ELSE /\ web' = [call EXCEPT !.pc = "parse_text",
                                                !.saved = TRUE,
                                                !.engine = engine,
                                                !.text = o.text]
                         /\ log' = log \cup Errors(p.errors, "cv2.error")
                                       \cup o.errors
                         /\ req' = [req EXCEPT ![1] =
                                      [Idle EXCEPT !.pc = "check",
                                                   !.text = Str(o.text)]]
                         /\ disk' = [disk EXCEPT !.uploads = @ \cup {original}]
    /\ page' = [page EXCEPT !.pc = "done"]
    /\ UNCHANGED <<now, fields, memo, job, data, scan>>

\* parse_text has come back: return jsonify({...}); had it raised, the
\* handler's except would answer 500
ApiRespond ==
    /\ web.pc = "parse_text"
    /\ req[1].pc \in {"returned", "raised"}
    /\ web' = [web EXCEPT !.pc = "done", !.response =
                 IF req[1].pc = "raised"
                 THEN Failure(500, "Internal server error")
                 ELSE [status |-> 200, error |-> "",
                       extracted_text |-> web.text,
                       parsed_data |-> req[1].result]]
    /\ log' = IF req[1].pc = "raised"
              THEN log \cup Errors({"api_extract"}, "Exception") ELSE log
    /\ req' = [req EXCEPT ![1] = Idle]
    /\ UNCHANGED <<now, fields, memo, job, data, scan, disk, page>>

\* a caller of OCRProcessor.extract_text(image_path) gets its text
ReadFile(engine) ==
    /\ web.pc = "idle"
    /\ LET o == extract_text(engine)
       IN  /\ web' = [web EXCEPT !.pc = IF o.raised THEN "raised" ELSE "read",
                                 !.engine = engine, !.text = o.text]
           /\ log' = log \cup o.errors
    /\ UNCHANGED <<now, fields, req, memo, job, data, scan, disk, page>>

\* One request to /api/extract, after the cleanup in which the removal of
\* one file of the upload folder fails or none does, or one call of
\* extract_text
Uploads ==
    {[part |-> FALSE, filename |-> <<>>]} \cup
    {[part |-> TRUE, filename |-> name] :
        name \in {<<>>, <<"a",".","p","n","g">>, <<"a",".","P","N","G">>, <<"a",".","e","x","e">>,
                  <<"p","n","g">>, <<"a",".","p","n","g",".","e","x","e">>}}
NextApi ==
    \/ \E f \in disk.uploads : BeforeRequest({f})
    \/ BeforeRequest({})
    \/ \E upload \in Uploads, id \in Ids, file \in Files,
          enable_deskew \in BOOLEAN, engine \in Engines,
          failing \in {f \in Failing : Cardinality(f) < MaxFaults} :
            ApiExtract(upload, id, file, enable_deskew, failing, engine)
    \/ Run(1)
    \/ ApiRespond
    \/ \E engine \in Engines : ReadFile(engine)
SpecApi == Init /\ [][NextApi]_vars

\* upload_file: the three checks, each answered with a redirect; then the
\* original is saved, the image processed and saved (save_image returns
\* False when it fails, which nobody reads), the text extracted and
\* parsed for nothing, and the answer is the redirect to the result page
UploadFile(upload, id, file, enable_deskew, engine, saves) ==
    /\ page.pc = "routed"
    /\ \A f \in disk.uploads \cup disk.processed : f.id # id
    /\ LET p == process_image(file,
                    [resize |-> TRUE, denoise |-> TRUE,
                     deskew_image |-> enable_deskew,
                     threshold_method |-> "adaptive"], {})
           o == extract_text_from_image(engine)
           original == [name |-> stored_name(<<>>, upload.filename, id),
                        mtime |-> now, dir |-> FALSE, id |-> id]
           processed == [name |-> stored_name(<<"p","r","o","c","e","s","s","e","d","_">>,
                                              upload.filename, id),
                         mtime |-> now, dir |-> FALSE, id |-> id]
       IN  IF ~upload.part \/ ~allowed_file(upload.filename)
           THEN /\ page' = [page EXCEPT !.pc = "done"]
                /\ UNCHANGED <<disk, log>>
           ELSE /\ page' = [page EXCEPT !.pc = "done", !.process_id = id]
                /\ disk' = [uploads |-> disk.uploads \cup {original},
                            processed |-> IF p.image.ok /\ saves
                                          THEN disk.processed \cup {processed}
                                          ELSE disk.processed]
                /\ log' = log \cup Errors(p.errors, "cv2.error")
                              \cup (IF p.image.ok THEN o.errors ELSE {})
                              \cup (IF p.image.ok /\ ~saves
                                    THEN Errors({"save_image"}, "cv2.error")
                                    ELSE {})
    /\ UNCHANGED <<now, fields, req, memo, web, job, data, scan>>

\* result(process_id): the files of both folders with process_id in their
\* names; without one of either the answer is a redirect, otherwise the
\* page shows the first of each list, and os.listdir gives the names in
\* an order of its own
Result(process_id, original, processed, engine) ==
    /\ page.pc = "routed"
    /\ LET original_files == {f \in disk.uploads : Contains(f.name, process_id)}
           processed_files == {f \in disk.processed : Contains(f.name, process_id)}
       IN  IF original_files = {} \/ processed_files = {}
           THEN /\ page' = [page EXCEPT !.pc = "done", !.shown = FALSE,
                                        !.process_id = process_id]
                /\ log' = log
           ELSE /\ original \in original_files
                /\ processed \in processed_files
                /\ page' = [page EXCEPT !.pc = "done", !.shown = TRUE,
                                        !.process_id = process_id,
                                        !.original = original,
                                        !.processed = processed]
                /\ log' = log \cup extract_text_from_image(engine).errors
    /\ UNCHANGED <<now, fields, req, memo, web, job, data, scan, disk>>

\* The pages of the application, one request after another: uploads of
\* a.png and of a.exe, readable or not, and result pages asked for by the
\* id of an upload or by a part of it
NextPages ==
    \/ Tick
    \/ \E f \in {g \in disk.uploads : ~g.dir} : BeforeRequest({f})
    \/ BeforeRequest({})
    \/ Index
    \/ \E upload \in {u \in Uploads : u.filename \in {<<"a",".","p","n","g">>, <<"a",".","e","x","e">>}},
          id \in Ids,
          file \in {f \in Files : f.readable /\ f.channels = 3 /\ ~f.skewed},
          engine \in {e \in Engines : ~e.raised /\ e.text = <<>>},
          saves \in BOOLEAN :
            UploadFile(upload, id, file, TRUE, engine, saves)
    \/ \E process_id \in Ids \cup {<<"-","4">>},
          original \in disk.uploads, processed \in disk.processed,
          engine \in {e \in Engines : ~e.raised /\ e.text = <<>>} :
            Result(process_id, original, processed, engine)
    \/ Sent
SpecPages == Init /\ [][NextPages]_vars

(***************************************************************************)
(* utils/ocr.py, extract_structured_data.  A reading is what the call of   *)
(* pytesseract.image_to_data came to: an exception, or the columns text,   *)
(* conf, left, top, width, height and line_num, here one record a row.     *)
(***************************************************************************)
\* ' '.join(words)
JoinWords(words) ==
    ConcatAll([i \in 1..Len(words) |->
                 IF i = 1 THEN words[i] ELSE <<" ">> \o words[i]])

\* a faulty variant: only rows of blank text are skipped
skipped_blank(token) == Strip(token.text) = <<>>

\* if not text.strip(): continue ... if conf < 0: continue
skipped(token) == Strip(token.text) = <<>> \/ token.conf < 0

\* a faulty variant: every word is a line of its own
one_word_a_line(tokens, current_line, line_text, lines) ==
    LET kept == SelectSeq(tokens, LAMBDA t : ~skipped(t))
    IN  [i \in 1..Len(kept) |-> kept[i].text]

\* the grouping by line of the loop over the rows, and `if line_text:`
\* after it: line_text is closed when line_num is not current_line
RECURSIVE group_lines(_, _, _, _)
group_lines(tokens, current_line, line_text, lines) ==
    LET closed == IF line_text # <<>>
                  THEN Append(lines, JoinWords(line_text)) ELSE lines
    IN  IF tokens = <<>> THEN closed
        ELSE IF skipped(Head(tokens))
        THEN group_lines(Tail(tokens), current_line, line_text, lines)
        ELSE IF Head(tokens).line_num # current_line
        THEN group_lines(Tail(tokens), Head(tokens).line_num,
                         <<Head(tokens).text>>, closed)
        ELSE group_lines(Tail(tokens), current_line,
                         Append(line_text, Head(tokens).text), lines)

\* the box is scaled back: the image was read at twice its size
extract_structured_data(reading) ==
    LET kept == SelectSeq(reading.tokens, LAMBDA t : ~skipped(t))
    IN  IF reading.raised
        THEN [text |-> <<>>, boxes |-> <<>>, confidence |-> <<>>,
              lines |-> <<>>, tables |-> <<>>]
        ELSE [text |-> [i \in 1..Len(kept) |-> kept[i].text],
              boxes |-> [i \in 1..Len(kept) |->
                           <<kept[i].left \div 2, kept[i].top \div 2,
                             kept[i].width \div 2, kept[i].height \div 2>>],
              confidence |-> [i \in 1..Len(kept) |-> kept[i].conf],
              lines |-> group_lines(reading.tokens, 0 - 1, <<>>, <<>>),
              tables |-> <<>>]

\* The readings: up to MaxTokens rows, each blank or a word, of negative
\* confidence or not, on the first line or the second, each in a box of
\* its own
MaxTokens == 3
Readings ==
    {[raised |-> TRUE, tokens |-> <<>>]} \cup
    {[raised |-> FALSE,
      tokens |-> [i \in DOMAIN f |->
                    [text |-> f[i][1], conf |-> f[i][2], line_num |-> f[i][3],
                     left |-> 40 * i + 1, top |-> 30 * f[i][3],
                     width |-> 35, height |-> 20]]] :
        f \in UNION {[1..k -> {<<>>, <<" ">>, <<"T","e","a">>}
                              \X {0 - 1, 0} \X {1, 2}] : k \in 1..MaxTokens}}

ExtractStructuredData(reading) ==
    /\ data.pc = "idle"
    /\ data' = [pc |-> "returned", reading |-> reading,
                result |-> extract_structured_data(reading)]
    /\ log' = IF reading.raised
              THEN log \cup Errors({"extract_structured_data"}, "TesseractError")
              ELSE log
    /\ UNCHANGED <<now, fields, req, memo, web, job, scan, disk, page>>

NextData == \E reading \in Readings : ExtractStructuredData(reading)
SpecData == Init /\ [][NextData]_vars

(***************************************************************************)
(* utils/ocr.py, _analyze_line_items, one step for each turn of its loop.  *)
(* A line is what _analyze_line_structure made: its indentation and its    *)
(* words with their types; `no` is its place in the list.                  *)
(***************************************************************************)
\* a faulty variant: a number is enough
is_line_item_number(line) ==
    \E w \in DOMAIN line.words : line.words[w].type = "number"

\* _is_line_item: has_number and has_text
is_line_item(line) ==
    /\ \E w \in DOMAIN line.words : line.words[w].type = "number"
    /\ \E w \in DOMAIN line.words : line.words[w].type = "text"

\* tables = []; current_table = []; current_indent = None
AnalyzeLineItems(lines) ==
    /\ scan.pc = "idle"
    /\ scan' = [pc |-> "loop", lines |-> lines, i |-> 1, tables |-> <<>>,
                current_table |-> <<>>, current_indent |-> None]
    /\ UNCHANGED <<now, fields, req, memo, web, job, log, data, disk, page>>

\* for line in lines: ...
ScanLine ==
    /\ scan.pc = "loop"
    /\ scan.i <= Len(scan.lines)
    /\ LET line == scan.lines[scan.i]
           next == [scan EXCEPT !.i = @ + 1]
           last == Len(scan.current_table)
       IN  scan' =
             IF scan.current_indent # None
                /\ line.indentation > scan.current_indent + 20
             THEN IF scan.current_table # <<>>
                  THEN [next EXCEPT !.current_table[last].sub_lines =
                                        Append(@, line)]
                  ELSE next
             ELSE IF is_line_item(line)
             THEN [next EXCEPT
                     !.current_indent = IF scan.current_table = <<>>
                                        THEN line.indentation ELSE @,
                     !.current_table =
                        Append(@, [line |-> line, sub_lines |-> <<>>])]
             ELSE IF scan.current_table # <<>>
             THEN [next EXCEPT !.tables = Append(@, scan.current_table),
                               !.current_table = <<>>,
                               !.current_indent = None]
             ELSE next
    /\ UNCHANGED <<now, fields, req, memo, web, job, log, data, disk, page>>

\* if current_table: tables.append(current_table); return tables
ReturnTables ==
    /\ scan.pc = "loop"
    /\ scan.i > Len(scan.lines)
    /\ scan' = [scan EXCEPT !.pc = "returned",
                            !.tables = IF scan.current_table # <<>>
                                       THEN Append(@, scan.current_table)
                                       ELSE @]
    /\ UNCHANGED <<now, fields, req, memo, web, job, log, data, disk, page>>

\* The lists of up to MaxRows lines: a line has a number and a text, or a
\* text only, or a number only, and begins at 0, at 20 or at 21
MaxRows == 3
LineLists ==
    {[i \in DOMAIN f |->
        [no |-> i, indentation |-> f[i][1],
         words |-> [w \in DOMAIN f[i][2] |-> [type |-> f[i][2][w]]]]] :
        f \in UNION {[1..k -> {0, 20, 21}
                              \X {<<"number", "text">>, <<"text">>, <<"number">>}] :
                        k \in 1..MaxRows}}
NextScan ==
    \/ \E lines \in LineLists : AnalyzeLineItems(lines)
    \/ ScanLine
    \/ ReturnTables
SpecScan == Init /\ [][NextScan]_vars

(***************************************************************************)
(* What parse_text returns when nothing fails and nothing runs beside it   *)
(***************************************************************************)
Extract(kind, chars, default, fails) ==
    CASE kind = "dates" -> extract_dates(chars, default, fails)
      [] kind = "amounts" -> extract_amounts(chars, fails)
      [] kind = "addresses" -> extract_addresses(chars, fails)
      [] kind = "emails" -> extract_emails(chars, fails)
      [] kind = "phone_numbers" -> extract_phone_numbers(chars, fails)
      [] kind = "invoice_numbers" -> extract_invoice_numbers(chars, fails)
      [] kind = "item_descriptions" -> extract_item_descriptions(chars, fails)

parse_text(v, day) ==
    IF Invalid(v) THEN <<>>
    ELSE [k \in Range(Kinds) |-> Extract(k, v.chars, DayAt(day), FALSE).value]

IsText(v) == v.type = "str" /\ v.chars # <<>>

(***************************************************************************)
(* C1: for every string input parse_text returns and lets no exception    *)
(* out, whatever the text holds and whichever extractor fails inside.      *)
(***************************************************************************)
C1_NoExceptionEscapes ==
    \A r \in Requests :
        req[r].text.type = "str" =>
            /\ req[r].pc # "raised"
            /\ req[r].pc = "returned" /\ IsText(req[r].text)
                  => DOMAIN req[r].result = Range(Kinds)

\* a call on a text in which an extractor failed has returned
C1_Witness ==
    \E r \in Requests :
        /\ req[r].pc = "returned"
        /\ IsText(req[r].text)
        /\ req[r].fault # NoFault

(***************************************************************************)
(* C2: called with the empty string, None or any value that is no string,  *)
(* parse_text returns the empty result {} and raises nothing.              *)
(***************************************************************************)
C2_InvalidInputGivesEmpty ==
    \A r \in Requests :
        ~IsText(req[r].text) =>
            /\ req[r].pc \in {"idle", "check", "returned"}
            /\ req[r].pc = "returned" => req[r].result = <<>>

\* a call on a value that is no string, and true in Python, has returned
C2_Witness ==
    \E r \in Requests :
        /\ req[r].pc = "returned"
        /\ req[r].text.type # "str"
        /\ req[r].text.truthy
        /\ req[r].result = <<>>

(***************************************************************************)
(* C3: when one extractor fails inside parse_text, the list of its kind is *)
(* empty and the six other lists are what they are without the failure.    *)
(***************************************************************************)
C3_FailureIsolated ==
    \A r \in Requests :
        req[r].fault # NoFault /\ IsText(req[r].text) =>
            \A k \in DOMAIN req[r].result :
                req[r].result[k] =
                    IF k = req[r].fault THEN <<>>
                    ELSE parse_text(req[r].text, req[r].day)[k]

\* a call whose amounts extractor failed has returned with dates in hand
C3_Witness ==
    \E r \in Requests :
        /\ req[r].pc = "returned"
        /\ IsText(req[r].text)
        /\ req[r].fault = "amounts"
        /\ req[r].result["amounts"] = <<>>
        /\ req[r].result["dates"] # <<>>
        /\ parse_text(req[r].text, req[r].day)["amounts"] # <<>>

(***************************************************************************)
(* C4: two calls of parse_text on the same text return identical results,  *)
(* whatever runs between them.  (It fails: a date candidate whose word is  *)
(* no month name takes its day from the clock.)                            *)
(***************************************************************************)
C4_Idempotent ==
    \A r \in Requests :
        (/\ req[r].pc = "returned"
         /\ memo # <<>>
         /\ memo[1].text = req[r].text)
            => req[r].result = memo[1].result

(***************************************************************************)
(* C5: concurrent calls on the shared DataParser write nothing on it, and  *)
(* under every interleaving each call returns what it returns run alone.   *)
(***************************************************************************)
C5_CallsDoNotInterfere ==
    /\ fields = <<>>
    /\ \A r \in Requests :
          req[r].pc = "returned" => req[r].result = parse_text(req[r].text, req[r].day)

\* a call returned while a call that began before it was still running
C5_Witness ==
    \E r1, r2 \in Requests :
        /\ req[r1].pc = "returned"
        /\ req[r1].result # <<>>
        /\ req[r2].pc = "emails"
        /\ req[r2].day < req[r1].day
        /\ req[r1].text # req[r2].text

(***************************************************************************)
(* C6: a date match that the date parser rejects is left out of the dates, *)
(* and every other match of the three date patterns, before it or after    *)
(* it, is returned, in the order the matches were found.                   *)
(***************************************************************************)
DateMatches(r) == AllMatches(date_patterns, TRUE, req[r].text.chars)

Accepted(r, match) ==
    date_parser_parse(Slice(req[r].text.chars, match), DayAt(req[r].day)).ok

DatesDone(r) ==
    /\ IsText(req[r].text)
    /\ req[r].pc \notin {"idle", "check", "dates"}

C6_RejectedDateDroppedAlone ==
    \A r \in Requests :
        DatesDone(r) =>
            LET matches == DateMatches(r)
                dates == req[r].result["dates"]
                taken(match) == Accepted(r, match)
                good == SelectSeq(matches, taken)
            IN  /\ Len(dates) = Len(good)
                /\ \A i \in DOMAIN dates :
                      /\ dates[i].position = good[i]
                      /\ dates[i].date_str = Slice(req[r].text.chars, good[i])

\* a text with a rejected match before an accepted one, and one after
C6_Witness ==
    \E r \in Requests :
        /\ DatesDone(r)
        /\ req[r].result["dates"] # <<>>
        /\ \E i, j \in DOMAIN DateMatches(r) :
              /\ i < j
              /\ ~Accepted(r, DateMatches(r)[i])
              /\ Accepted(r, DateMatches(r)[j])

(***************************************************************************)
(* C7 as written: every numeric date of the text, its numbers separated by *)
(* slashes or by dashes, that the date parser accepts is in the dates with *)
(* date_str its raw text.  (It fails: of 2023-01-15 the pattern takes      *)
(* 23-01-15.)                                                              *)
(***************************************************************************)
Done(r) == req[r].pc = "returned" /\ IsText(req[r].text)

\* the stretches of digits, slashes and dashes of the text
NumericRuns(text) == finditer(Plus(In(Digit \cup {"/", "-"})), FALSE, text)

WrittenAs(form, str) == MatchAt(form, FALSE, str, 0) = Len(str)

AnyNumericDate == Cat(<<Rep(D, 1, 4), DateSep, Rep(D, 1, 2), DateSep, Rep(D, 1, 4)>>)
ShortFirstDate == Cat(<<Rep(D, 1, 2), DateSep, Rep(D, 1, 2), DateSep, Rep(D, 2, 4)>>)

DatesOfForm(r, form) ==
    LET text == req[r].text.chars
    IN  {run \in Range(NumericRuns(text)) :
            /\ WrittenAs(form, Slice(text, run))
            /\ date_parser_parse(Slice(text, run), DayAt(req[r].day)).ok}

Raw(r, run) ==
    \E i \in DOMAIN req[r].result["dates"] :
        /\ req[r].result["dates"][i].date_str = Slice(req[r].text.chars, run)
        /\ req[r].result["dates"][i].position = run

DateStrs(r) == {req[r].result["dates"][i].date_str : i \in DOMAIN req[r].result["dates"]}

C7_EveryNumericDateRaw ==
    \A r \in Requests :
        Done(r) => \A run \in DatesOfForm(r, AnyNumericDate) : Raw(r, run)

(***************************************************************************)
(* C7, amended: every numeric date written as one or two digits, one or    *)
(* two digits and two to four digits, with slashes or dashes between and   *)
(* no digit, slash or dash next to it, that the date parser accepts is in  *)
(* the dates with date_str its raw text; the text of the test gives        *)
(* 01/15/2023 and 02/15/2023.                                              *)
(***************************************************************************)
C7_ShortFirstDateRaw ==
    \A r \in Requests :
        Done(r) =>
            /\ \A run \in DatesOfForm(r, ShortFirstDate) : Raw(r, run)
            /\ req[r].text.chars \in {DateSample, Indent(DateSample)} =>
                  {<<"0","1","/","1","5","/","2","0","2","3">>, <<"0","2","/","1","5","/","2","0","2","3">>} \subseteq DateStrs(r)

\* a date of two-digit year after a label, returned as written
C7_Witness ==
    \E r \in Requests :
        /\ Done(r)
        /\ \E run \in DatesOfForm(r, ShortFirstDate) :
              /\ run[1] > 0
              /\ run[2] - run[1] < 8
              /\ Raw(r, run)

(***************************************************************************)
(* C8 as written: of a text whose lines each are a label and one amount    *)
(* after a dollar sign, the amounts are one entry a line, in the order of  *)
(* the lines, with the values of the lines.  (It fails: a label that ends  *)
(* in a number gives a second entry, "2 $".)                               *)
(***************************************************************************)
NoLabelChar == {Dollar, Euro, Pound, Yen, NL}
AnyLabelLine == Cat(<<Plus(In(Alphabet \ NoLabelChar)), Chr(Dollar), NumberRe>>)
ColonLabelLine ==
    Cat(<<Star(In(Alphabet \ NoLabelChar)), Lit(<<":", " ">>), Chr(Dollar), NumberRe>>)

HasCode(line) ==
    \E code \in {<<"U","S","D">>, <<"E","U","R">>, <<"G","B","P">>, <<"J","P","Y">>} :
        Contains(line, code)

\* the value after the dollar sign of a line, in hundredths
LineValue(line) ==
    LET at == CHOOSE i \in DOMAIN line : line[i] = Dollar
    IN  FloatOf(WithoutCommas(SubSeq(line, at + 1, Len(line))))

MadeOf(r, form) ==
    \A i \in DOMAIN SplitLines(req[r].text.chars) :
        WrittenAs(form, SplitLines(req[r].text.chars)[i])

OneEntryALine(r) ==
    LET lines == SplitLines(req[r].text.chars)
        amounts == req[r].result["amounts"]
    IN  /\ Len(amounts) = Len(lines)
        /\ \A i \in DOMAIN amounts : amounts[i].numeric_value = LineValue(lines[i])
        /\ \A i, j \in DOMAIN amounts :
              i < j => amounts[i].position[2] <= amounts[j].position[1]

NumberChar == Digit \cup {"+", "(", ")", "-", "."} \cup Space

Bare(phone) ==
    /\ phone # <<>>
    /\ \A i \in DOMAIN phone : phone[i] \in NumberChar
    /\ phone[1] \notin Space /\ phone[Len(phone)] \notin Space

\* the matches of the two patterns that begin with a label
LabelledMatches(text) ==
    Range(finditer(phone_patterns[4], TRUE, text)) \cup
    Range(finditer(phone_patterns[5], TRUE, text))

C9_PhoneWithoutLabel ==
    \A r \in Requests :
        Done(r) =>
            LET text == req[r].text.chars
                phones == req[r].result["phone_numbers"]
            IN  /\ \A i \in DOMAIN phones : Bare(phones[i].phone)
                /\ \A i \in DOMAIN phones :
                      phones[i].position \in LabelledMatches(text) =>
                          LET matched == Slice(text, phones[i].position)
                          IN  phones[i].phone =
                                  Slice(matched, search(ParenPhone, FALSE, matched))
                /\ text \in {<<"C","a","l","l"," ","u","s",":"," ","(","1","2","3",")"," ","4","5","6","-","7","8","9","0">>,
                            PhoneSample, Indent(PhoneSample)} =>
                      \E i \in DOMAIN phones : phones[i].phone = <<"(","1","2","3",")"," ","4","5","6","-","7","8","9","0">>

\* a number after a label and words: the entry of the labelled match holds
\* the number, not the label
C9_Witness ==
    \E r \in Requests :
        /\ Done(r)
        /\ \E i \in DOMAIN req[r].result["phone_numbers"] :
              LET entry == req[r].result["phone_numbers"][i]
              IN  /\ entry.position \in LabelledMatches(req[r].text.chars)
                  /\ Len(entry.phone) < entry.position[2] - entry.position[1]
                  /\ Bare(entry.phone)

(***************************************************************************)
(* C10: the matched text of every amount holds exactly one of the symbols  *)
(* and codes of currency, the currency of the entry is the code of that    *)
(* one, and no amount is without a currency.                               *)
(***************************************************************************)
CodeOfMarker ==
    {<<<<Dollar>>, "USD">>, <<<<Euro>>, "EUR">>, <<<<Pound>>, "GBP">>, <<<<Yen>>, "JPY">>,
     <<<<"U","S","D">>, "USD">>, <<<<"E","U","R">>, "EUR">>,
     <<<<"G","B","P">>, "GBP">>, <<<<"J","P","Y">>, "JPY">>}

MarkersIn(str) == {m \in CodeOfMarker : Contains(str, m[1])}

C10_OneCurrencyMarker ==
    \A r \in Requests :
        Done(r) =>
            \A i \in DOMAIN req[r].result["amounts"] :
                LET entry == req[r].result["amounts"][i]
                IN  /\ Cardinality(MarkersIn(entry.amount_str)) = 1
                    /\ \A m \in MarkersIn(entry.amount_str) : entry.currency = m[2]
                    /\ entry.currency # "None"

\* a number between a symbol and a code of another currency: two amounts
\* that share the number, each with the currency of its own marker
C10_Witness ==
    \E r \in Requests :
        /\ Done(r)
        /\ \E i, j \in DOMAIN req[r].result["amounts"] :
              LET one == req[r].result["amounts"][i]
                  other == req[r].result["amounts"][j]
              IN  /\ one.currency = "GBP" /\ Contains(one.amount_str, <<Pound>>)
                  /\ other.currency = "EUR" /\ Contains(other.amount_str, <<"E","U","R">>)
                  /\ one.position[2] > other.position[1]

(***************************************************************************)
(* C11: the numeric value of every amount is the digits of its matched     *)
(* text, commas left out, read as a decimal number with the two digits     *)
(* after the point, if any, as its fraction; and no match of an amount     *)
(* pattern is lost to a failure of that computation.                       *)
(***************************************************************************)
IsDigit(c) == c \in Digit

\* the number, in hundredths, that the digits and the point of str write
DecimalOf(str) ==
    LET digits == SelectSeq(str, IsDigit)
    IN  IF \E i \in DOMAIN str : str[i] = "." THEN IntOf(digits) ELSE 100 * IntOf(digits)

C11_ValueIsTheDigits ==
    \A r \in Requests :
        Done(r) =>
            LET amounts == req[r].result["amounts"]
                matches == AllMatches(amount_patterns, FALSE, req[r].text.chars)
            IN  /\ Len(amounts) = Len(matches)
                /\ \A i \in DOMAIN amounts :
                      /\ amounts[i].position = matches[i]
                      /\ amounts[i].numeric_value =
                            DecimalOf(Slice(req[r].text.chars, matches[i]))

\* an amount in yen written with a comma and a fraction
C11_Witness ==
    \E r \in Requests :
        /\ Done(r)
        /\ \E i \in DOMAIN req[r].result["amounts"] :
              /\ req[r].result["amounts"][i].numeric_value = 100050
              /\ req[r].result["amounts"][i].currency = "JPY"
              /\ Contains(req[r].result["amounts"][i].amount_str, <<",">>)

(***************************************************************************)
(* C12 as written: the items are, line by line, one item for every line of *)
(* more than 4 characters that holds a number, its description the trimmed *)
(* text before the first number and its price that number.  (It fails: a   *)
(* line that begins with its number gives no item.)                        *)
(***************************************************************************)
FirstNumber(line) == search(price_pattern, FALSE, line)
Before(line) == Strip(SubSeq(line, 1, FirstNumber(line)[1]))

\* (the length is taken of the trimmed line, as the code takes it)
LongWithNumber(line) == Len(Strip(line)) > 4 /\ FirstNumber(line) # <<>>

LongTrimmedWithWords(line) ==
    /\ Len(Strip(line)) > 4
    /\ FirstNumber(line) # <<>>
    /\ Before(line) # <<>>

ItemsAre(r, lines) ==
    LET items == req[r].result["item_descriptions"]
    IN  /\ Len(items) = Len(lines)
        /\ \A i \in DOMAIN items :
              /\ items[i].description = Before(lines[i])
              /\ items[i].price = Slice(lines[i], FirstNumber(lines[i]))

C12_ItemPerNumberedLine ==
    \A r \in Requests :
        Done(r) => ItemsAre(r, SelectSeq(SplitLines(req[r].text.chars), LongWithNumber))

(***************************************************************************)
(* C12, amended: the items are, line by line, one item for every line that *)
(* is longer than 4 characters once trimmed, holds a number and has text   *)
(* other than blanks before its first number; the description is that text *)
(* trimmed and the price that number; other lines give nothing.            *)
(***************************************************************************)
C12_ItemPerLineWithWords ==
    \A r \in Requests :
        Done(r) =>
            ItemsAre(r, SelectSeq(SplitLines(req[r].text.chars), LongTrimmedWithWords))

\* a line with two numbers gives its item after a line that gives none
C12_Witness ==
    \E r \in Requests :
        /\ Done(r)
        /\ Len(SplitLines(req[r].text.chars)) = 2
        /\ ~LongTrimmedWithWords(SplitLines(req[r].text.chars)[1])
        /\ Len(req[r].result["item_descriptions"]) = 1
        /\ req[r].result["item_descriptions"][1].price = <<"3", ".", "5", "0">>
        /\ req[r].result["item_descriptions"][1].description = <<"W","i","d","g","e","t"," ",Dollar>>

(***************************************************************************)
(* C13: the position of every entry is the span, in the text, of the       *)
(* string the entry reports: text[start:end] is its date_str, amount_str,  *)
(* address, email, phone or invoice_number.  (It fails: the entry of a     *)
(* labelled phone match reports the number and the span of the label and   *)
(* the number.)                                                            *)
(***************************************************************************)
RawOf(kind, entry) ==
    CASE kind = "dates" -> entry.date_str
      [] kind = "amounts" -> entry.amount_str
      [] kind = "addresses" -> entry.address
      [] kind = "emails" -> entry.email
      [] kind = "phone_numbers" -> entry.phone
      [] kind = "invoice_numbers" -> entry.invoice_number

C13_PositionSpansRaw ==
    \A r \in Requests :
        Done(r) =>
            \A kind \in Range(Kinds) \ {"item_descriptions"} :
                \A i \in DOMAIN req[r].result[kind] :
                    Slice(req[r].text.chars, req[r].result[kind][i].position)
                        = RawOf(kind, req[r].result[kind][i])

(***************************************************************************)
(* C14: no extractor leaves out a match because another match gave the     *)
(* same text: the entries of a kind are the matches of its first pattern,  *)
(* then of its second, and so on, one entry a match (for dates, a match    *)
(* the date parser accepts).  "Invoice: 12345" is found by both invoice    *)
(* patterns and reported twice; a phone number after a label is reported   *)
(* by the pattern without label and by the pattern with it.                *)
(***************************************************************************)
MatchesOfKind(kind, text) ==
    CASE kind = "dates" -> AllMatches(date_patterns, TRUE, text)
      [] kind = "amounts" -> AllMatches(amount_patterns, FALSE, text)
      [] kind = "addresses" -> AllMatches(address_patterns, TRUE, text)
      [] kind = "emails" -> AllMatches(<<email_pattern>>, FALSE, text)
      [] kind = "phone_numbers" -> AllMatches(phone_patterns, TRUE, text)
      [] kind = "invoice_numbers" -> AllMatches(invoice_patterns, TRUE, text)

PositionsOf(entries) == [i \in DOMAIN entries |-> entries[i].position]

C14_OneEntryPerMatch ==
    \A r \in Requests :
        Done(r) =>
            LET text == req[r].text.chars
                taken(match) == Accepted(r, match)
                invoices == req[r].result["invoice_numbers"]
                phones == req[r].result["phone_numbers"]
            IN  /\ \A kind \in Range(Kinds) \ {"item_descriptions", "dates"} :
                      PositionsOf(req[r].result[kind]) = MatchesOfKind(kind, text)
                /\ PositionsOf(req[r].result["dates"])
                      = SelectSeq(MatchesOfKind("dates", text), taken)
                /\ text = <<"I","n","v","o","i","c","e",":"," ","1","2","3","4","5">> =>
                      /\ Len(invoices) = 2
                      /\ invoices[1].invoice_number = text
                      /\ invoices[2].invoice_number = text
                /\ text = PhoneSample =>
                      \E i, j \in DOMAIN phones :
                          /\ i # j
                          /\ phones[i].phone = phones[j].phone
                          /\ phones[i].position # phones[j].position

\* two entries of one kind with the same text and the same position
C14_Witness ==
    \E r \in Requests :
        /\ Done(r)
        /\ \E i, j \in DOMAIN req[r].result["invoice_numbers"] :
              /\ i < j
              /\ req[r].result["invoice_numbers"][i] = req[r].result["invoice_numbers"][j]
              /\ Len(req[r].result["invoice_numbers"][i].invoice_number) > 10

(***************************************************************************)
(* C15: the text of the header line "Date Description Charges" and the     *)
(* line "12-08-29 Cleaning $30" gives exactly one table row, of Date       *)
(* 12-08-29, Description Cleaning and Amount 30.  (It fails: parse_text    *)
(* returns the seven lists of entities and builds no row; the line gives   *)
(* not even an item, since it begins with a number.)                       *)
(***************************************************************************)
CleaningRow ==
    [Date |-> <<"1","2","-","0","8","-","2","9">>, Description |-> <<"C","l","e","a","n","i","n","g">>,
     Amount |-> <<"3","0">>]

C15_OneTableRow ==
    \A r \in Requests :
        Done(r) /\ req[r].text.chars = TableSample =>
            \E k \in DOMAIN req[r].result : req[r].result[k] = <<CleaningRow>>

(***************************************************************************)
(* C16: of a text with a table header line, the result carries a schema:   *)
(* the canonical columns the line names, each once, in the order Date,     *)
(* Description, Quantity, Rate, Amount.  (It fails: the result of          *)
(* parse_text has no schema.)                                              *)
(***************************************************************************)
Columns == <<"Date", "Description", "Quantity", "Rate", "Amount">>

ColumnWords(column) ==
    CASE column = "Date" -> {<<"d","a","t","e">>}
      [] column = "Description" ->
            {<<"d","e","s","c","r","i","p","t","i","o","n">>, <<"i","t","e","m">>,
             <<"s","e","r","v","i","c","e">>}
      [] column = "Quantity" -> {<<"q","u","a","n","t","i","t","y">>, <<"q","t","y">>}
      [] column = "Rate" -> {<<"r","a","t","e">>, <<"p","r","i","c","e">>, <<"c","o","s","t">>}
      [] column = "Amount" ->
            {<<"a","m","o","u","n","t">>, <<"c","h","a","r","g","e","s">>,
             <<"t","o","t","a","l">>}

\* sub in str.lower()
ContainsAnyCase(str, sub) == search(Lit(sub), TRUE, str) # <<>>

SchemaOf(line) ==
    LET named(column) == \E word \in ColumnWords(column) : ContainsAnyCase(line, word)
    IN  SelectSeq(Columns, named)

\* a header of the catalog names two of the columns at least
IsTableHeader(line) == Len(SchemaOf(line)) >= 2

C16_SchemaOfHeader ==
    \A r \in Requests :
        Done(r) /\ IsTableHeader(SplitLines(req[r].text.chars)[1]) =>
            \E k \in DOMAIN req[r].result :
                req[r].result[k] = SchemaOf(SplitLines(req[r].text.chars)[1])

(***************************************************************************)
(* C17: the first line after the table header that holds subtotal, total,  *)
(* vat, tax or balance, in any case, ends the table: neither it nor any    *)
(* line after it is returned as an item or row.  (It fails: the items are  *)
(* taken from every line of the text, "Total: $30" included.)              *)
(***************************************************************************)
Sentinels ==
    {<<"s","u","b","t","o","t","a","l">>, <<"t","o","t","a","l">>, <<"v","a","t">>,
     <<"t","a","x">>, <<"b","a","l","a","n","c","e">>}

IsSentinel(line) == \E word \in Sentinels : ContainsAnyCase(line, word)

\* the lines from the first sentinel after the header line on
SummaryZone(lines) ==
    LET ends == {i \in 2..Len(lines) : IsSentinel(lines[i])}
    IN  IF ends = {} THEN {} ELSE {lines[i] : i \in Min(ends)..Len(lines)}

C17_NoRowFromSummaryZone ==
    \A r \in Requests :
        Done(r) /\ IsTableHeader(SplitLines(req[r].text.chars)[1]) =>
            \A i \in DOMAIN req[r].result["item_descriptions"] :
                \A line \in SummaryZone(SplitLines(req[r].text.chars)) :
                    req[r].result["item_descriptions"][i].line # Strip(line)

(***************************************************************************)
(* C20: every email address of the text, a local part, "@", a domain, "."  *)
(* and two letters or more, standing between characters that no address    *)
(* holds, is returned exactly once for each place it stands at, and the    *)
(* emails are in the order of the text.                                    *)
(***************************************************************************)
LocalChar == Letter \cup Digit \cup {".", "_", "%", "+", "-"}
DomainChar == Letter \cup Digit \cup {".", "-"}

AddressForm ==
    Cat(<<Plus(In(LocalChar)), Chr("@"), Plus(In(DomainChar)), Chr("."),
          Rep(In(Letter), 2, Unbounded)>>)

\* the stretches of characters that addresses are written with
AddressRuns(text) == Range(finditer(Plus(In(LocalChar \cup {"@"})), FALSE, text))

AddressesIn(text) == {run \in AddressRuns(text) : WrittenAs(AddressForm, Slice(text, run))}

C18_OcrFailureGivesEmptyResult ==
    web.engine.raised =>
        /\ web.pc \in {"parse_text", "done", "read"}
        /\ web.text = <<>>
        /\ \E source \in {"extract_text", "extract_text_from_image"} :
               [source |-> source, cause |-> web.engine.cause] \in log
        /\ web.pc = "parse_text" => req[1].pc # "raised"
        /\ web.pc = "done" =>
               /\ web.response.status = 200
               /\ web.response.extracted_text = <<>>
               /\ DOMAIN web.response.parsed_data = {}

\* a request whose image was processed and whose OCR call failed has been
\* answered
C18_Witness ==
    /\ web.pc = "done"
    /\ web.saved
    /\ web.engine.raised
    /\ web.response.status = 200
    /\ Errors({"extract_text_from_image"}, web.engine.cause) \subseteq log

(***************************************************************************)
(* C19: called with the threshold option 'none', process_image applies no  *)
(* thresholding to the image; called with 'simple', 'otsu' or 'adaptive',  *)
(* it applies the method named and no other.                               *)
(***************************************************************************)
Thresholds(image) ==
    SelectSeq(image.steps, LAMBDA x : x \in {"simple", "otsu", "adaptive"})
C19_ThresholdAsNamed ==
    job.pc = "returned" /\ job.result.ok =>
        IF job.options.threshold_method = "none"
        THEN Thresholds(job.result) = <<>>
        ELSE \/ Thresholds(job.result) = <<job.options.threshold_method>>
             \/ /\ Thresholds(job.result) = <<>>
                /\ Errors({"apply_thresholding"}, "cv2.error") \subseteq log

(***************************************************************************)
(* C21: for every string that is not empty, a string of white space only   *)
(* included, parse_text returns a dict whose keys are exactly dates,       *)
(* amounts, addresses, emails, phone_numbers, invoice_numbers and          *)
(* item_descriptions, each with a list (which may be empty) as its value.  *)
(***************************************************************************)
IsList(v) == DOMAIN v = 1..Cardinality(DOMAIN v)
C21_SevenListsForText ==
    \A r \in Requests :
        IsText(req[r].text) =>
            /\ req[r].pc # "raised"
            /\ req[r].pc = "returned" =>
                  /\ DOMAIN req[r].result =
                        {"dates", "amounts", "addresses", "emails",
                         "phone_numbers", "invoice_numbers", "item_descriptions"}
                  /\ \A key \in DOMAIN req[r].result : IsList(req[r].result[key])

\* a call on a text of white space only has returned its seven empty lists
C21_Witness ==
    \E r \in Requests :
        /\ req[r].pc = "returned"
        /\ IsText(req[r].text)
        /\ Strip(req[r].text.chars) = <<>>
        /\ DOMAIN req[r].result = Range(Kinds)
        /\ \A key \in Range(Kinds) : req[r].result[key] = <<>>

(***************************************************************************)
(* C22: in every result of extract_structured_data the lists text, boxes   *)
(* and confidence are of one length and their entries at one index belong  *)
(* to one row of the reading; a row of blank text or of negative           *)
(* confidence is in none of the lists and in no line, so that no           *)
(* confidence in the result is below 0.                                    *)
(***************************************************************************)
IsKept(token) ==
    /\ token.conf >= 0
    /\ \E i \in DOMAIN token.text : token.text[i] \notin Space
KeptTokens ==
    IF data.reading.raised THEN <<>> ELSE SelectSeq(data.reading.tokens, IsKept)
WordsIn(lines) ==
    IF lines = <<>> THEN 0
    ELSE 1 + Cardinality({i \in DOMAIN JoinWords(lines) : JoinWords(lines)[i] = " "})
IsHalf(half, whole) == 2 * half <= whole /\ whole <= 2 * half + 1
C22_ListsDescribeKeptTokens ==
    data.pc = "returned" =>
        LET r == data.result
        IN  /\ Len(r.text) = Len(KeptTokens)
            /\ Len(r.boxes) = Len(KeptTokens)
            /\ Len(r.confidence) = Len(KeptTokens)
            /\ \A i \in DOMAIN KeptTokens :
                   /\ r.text[i] = KeptTokens[i].text
                   /\ r.confidence[i] = KeptTokens[i].conf
                   /\ r.confidence[i] >= 0
                   /\ IsHalf(r.boxes[i][1], KeptTokens[i].left)
                   /\ IsHalf(r.boxes[i][2], KeptTokens[i].top)
                   /\ IsHalf(r.boxes[i][3], KeptTokens[i].width)
                   /\ IsHalf(r.boxes[i][4], KeptTokens[i].height)
            /\ WordsIn(r.lines) = Len(KeptTokens)

\* a reading with a word, a word of negative confidence and a blank row
\* has been turned into its result
C22_Witness ==
    /\ data.pc = "returned"
    /\ Len(data.result.text) = 1
    /\ \E i, j \in DOMAIN data.reading.tokens :
          /\ data.reading.tokens[i].conf < 0
          /\ data.reading.tokens[i].text = <<"T","e","a">>
          /\ data.reading.tokens[j].conf >= 0
          /\ data.reading.tokens[j].text = <<" ">>

(***************************************************************************)
(* C23: the lines of the result of extract_structured_data are the kept    *)
(* rows, in the order read, cut into the longest runs of neighbours with   *)
(* one line_num: a line begins exactly at a kept row whose line_num is not *)
(* that of the kept row before it, no line is empty, and the words of all  *)
(* lines, joined in order, are the text list.                              *)
(***************************************************************************)
LineStarts ==
    {i \in DOMAIN KeptTokens :
        i = 1 \/ KeptTokens[i].line_num # KeptTokens[i - 1].line_num}
RunFrom(i) ==
    LET later == {j \in LineStarts : j > i}
        last == IF later = {} THEN Len(KeptTokens) ELSE Min(later) - 1
    IN  [k \in 1..(last - i + 1) |-> KeptTokens[i + k - 1].text]
C23_LinesAreRuns ==
    data.pc = "returned" =>
        /\ Len(data.result.lines) = Cardinality(LineStarts)
        /\ \A i \in LineStarts :
               data.result.lines[Cardinality({j \in LineStarts : j <= i})]
                  = JoinWords(RunFrom(i))
        /\ \A l \in DOMAIN data.result.lines : data.result.lines[l] # <<>>
        /\ JoinWords(data.result.lines) = JoinWords(data.result.text)

\* three kept rows have been cut into two lines
C23_Witness ==
    /\ data.pc = "returned"
    /\ Len(data.result.text) = 3
    /\ Len(data.result.lines) = 2

(***************************************************************************)
(* C24: process_image applies its steps in one order: load, conversion to  *)
(* grey, resize, denoise, deskew, thresholding.  A step whose flag         *)
(* (resize, denoise, deskew_image) is false is not applied, so the image   *)
(* goes on as the step before left it; and the result is None only when    *)
(* the image cannot be loaded or process_image itself raises.              *)
(***************************************************************************)
StepRank(step) ==
    CASE step = "load" -> 1
      [] step = "grayscale" -> 2
      [] step = "resize" -> 3
      [] step = "denoise" -> 4
      [] step = "rotate" -> 5
      [] OTHER -> 6
C24_StepsInOrder ==
    job.pc = "returned" =>
        LET steps == job.result.steps
        IN  IF job.result.ok
            THEN /\ steps[1] = "load"
                 /\ \A i, j \in DOMAIN steps :
                        i < j => StepRank(steps[i]) < StepRank(steps[j])
                 /\ ~job.options.resize => \A i \in DOMAIN steps : steps[i] # "resize"
                 /\ ~job.options.denoise => \A i \in DOMAIN steps : steps[i] # "denoise"
                 /\ ~job.options.deskew_image => \A i \in DOMAIN steps : steps[i] # "rotate"
            ELSE \/ ~job.file.readable
                 \/ "load_image" \in job.failing
                 \/ "process_image" \in job.failing

\* a skewed colour image has gone through every step but the resize,
\* whose flag was false
C24_Witness ==
    /\ job.pc = "returned"
    /\ ~job.options.resize
    /\ job.result.ok
    /\ job.result.steps = <<"load", "grayscale", "denoise", "rotate", "otsu">>

(***************************************************************************)
(* C27: api_extract answers 400 and saves nothing when the request has no  *)
(* file part, or an empty filename, or a filename whose text after the     *)
(* last dot is in no case of letters an allowed extension; a file is       *)
(* written to the upload folder only after all three checks have passed.   *)
(***************************************************************************)
SameButCase(a, b) ==
    /\ Len(a) = Len(b)
    /\ \A i \in DOMAIN a : ToLower(a[i]) = ToLower(b[i])
HasAllowedExtension(name) ==
    \E i \in DOMAIN name :
        /\ name[i] = "."
        /\ \A j \in DOMAIN name : j > i => name[j] # "."
        /\ \E e \in ALLOWED_EXTENSIONS :
               SameButCase(SubSeq(name, i + 1, Len(name)), e)
HasDot(name) == \E i \in DOMAIN name : name[i] = "."
Answered == web.pc \in {"parse_text", "done"} /\ page.pc = "done"
Written == disk.uploads \ page.before.uploads
C27_BadUploadSavesNothing ==
    Answered =>
        /\ (\/ ~web.upload.part
            \/ web.upload.filename = <<>>
            \/ HasDot(web.upload.filename)
                  /\ ~HasAllowedExtension(web.upload.filename))
              => /\ web.response.status = 400
                 /\ Written = {}
                 /\ disk.processed \subseteq page.before.processed
        /\ Written # {} =>
              /\ web.upload.part
              /\ web.upload.filename # <<>>
              /\ HasAllowedExtension(web.upload.filename)

\* a request with the file a.exe has been answered 400, and one with the
\* file a.PNG would have been saved
C27_Witness ==
    /\ Answered
    /\ web.upload.filename = <<"a",".","e","x","e">>
    /\ web.response.status = 400
    /\ ~web.saved
    /\ allowed_file(<<"a",".","P","N","G">>)

(***************************************************************************)
(* C26: the cleanup that runs before every request removes every regular  *)
(* file of the upload folder and of the processed folder that was written *)
(* more than 24 hours ago, and never a younger file or a directory; when   *)
(* the removal of one file fails the others are removed all the same and   *)
(* the request goes on.                                                    *)
(***************************************************************************)
OlderThanADay(f) == page.time - f.mtime > 1
Matching(folder) == {f \in folder : Contains(f.name, page.process_id)}
C25_ResultShowsOwnFiles ==
    page.pc = "done" /\ page.shown =>
        /\ Cardinality(Matching(disk.uploads)) = 1
        /\ Cardinality(Matching(disk.processed)) = 1
        /\ page.original.id = page.process_id
        /\ page.processed.id = page.process_id

(***************************************************************************)
(* C28: while _analyze_line_items goes through the lines, current_indent   *)
(* is set exactly when current_table is not empty; every table it gives    *)
(* out is non-empty and holds line-item rows only (lines with a number     *)
(* word and a text word), in the order of the input; and a line indented   *)
(* more than 20 units beyond the first row of the open table becomes a     *)
(* sub-line of the latest row: it is no row and does not close the table.  *)
(***************************************************************************)
IsItemRow(row) ==
    /\ \E w \in DOMAIN row.line.words : row.line.words[w].type = "number"
    /\ \E w \in DOMAIN row.line.words : row.line.words[w].type = "text"
RowsOf(tables) == ConcatAll(tables)
TablesWellFormed(tables) ==
    /\ \A t \in DOMAIN tables : tables[t] # <<>>
    /\ \A r \in DOMAIN RowsOf(tables) : IsItemRow(RowsOf(tables)[r])
    /\ \A q, r \in DOMAIN RowsOf(tables) :
           q < r => RowsOf(tables)[q].line.no < RowsOf(tables)[r].line.no
Emitted ==
    IF scan.pc = "loop" /\ scan.current_table # <<>>
    THEN Append(scan.tables, scan.current_table)
    ELSE scan.tables
ScanInvariant ==
    /\ scan.pc = "loop" =>
          /\ (scan.current_indent # None) <=> (scan.current_table # <<>>)
          /\ scan.current_table # <<>> =>
                scan.current_indent = scan.current_table[1].line.indentation
    /\ scan.pc \in {"loop", "returned"} => TablesWellFormed(Emitted)
SubLineStep ==
    (/\ scan.pc = "loop"
     /\ scan'.pc = "loop"
     /\ scan'.i = scan.i + 1
     /\ scan.current_table # <<>>
     /\ scan.lines[scan.i].indentation
           > scan.current_table[1].line.indentation + 20)
    => /\ scan'.tables = scan.tables
       /\ scan'.current_indent = scan.current_indent
       /\ Len(scan'.current_table) = Len(scan.current_table)
       /\ \A r \in DOMAIN scan.current_table :
              /\ scan'.current_table[r].line = scan.current_table[r].line
              /\ scan'.current_table[r].sub_lines =
                    IF r = Len(scan.current_table)
                    THEN Append(scan.current_table[r].sub_lines,
                                scan.lines[scan.i])
                    ELSE scan.current_table[r].sub_lines
C28_TablesOfLineItems == []ScanInvariant /\ [][SubLineStep]_vars

\* a table of one row with a sub-line that is itself a line item, closed
\* by a line of text, has been returned
C28_Witness ==
    /\ scan.pc = "returned"
    /\ Len(scan.tables) = 1
    /\ Len(scan.tables[1]) = 1
    /\ Len(scan.tables[1][1].sub_lines) = 1
    /\ IsItemRow([line |-> scan.tables[1][1].sub_lines[1]])
    /\ Len(scan.lines) = 3
====
